---- MODULE Spec2Model ----
(***************************************************************************)
(* A model of the call object of src/core/surface/call.c: the ioreq        *)
(* engine, the lock/unlock work pump, the send and receive paths, the      *)
(* status aggregator and the lifecycle, with the transport, the alarm and  *)
(* the user as the environment.                                            *)
(*                                                                         *)
(* The fields of struct grpc_call are the fields of the record `call`.     *)
(* Code that runs between lock() and the gpr_mu_unlock of unlock() is one  *)
(* action (the mutex makes it atomic); everything a thread does outside    *)
(* the mutex is a separate action, driven by the thread's list of frames   *)
(* (what it still has to do, innermost first).                             *)
(***************************************************************************)
EXTENDS Integers, Sequences, FiniteSets, TLC

VARIABLES call, mu, th, transport, cq, user

vars == <<call, mu, th, transport, cq, user>>

(* ---------------------------------------------------------------- bounds *)

\* how many calls of start_batch or start_ioreq the user makes
MaxBatches == 2
\* how many ops one batch may hold
MaxBatchLen == 2
\* how many times the user cancels the call
MaxCancels == 2
\* how many more batches the user starts under the tag of its last batch
MaxRestarts == 11
\* how many messages the transport delivers in the life of the call
MaxMsgs == 2
\* how many ordinary metadata elements the transport delivers in the life of the call
MaxMd == 2
\* the channel's configured maximum message length
MaxMessageLength == 2

(* ------------------------------------------------------------- constants *)

READ_STATE_INITIAL == 0
READ_STATE_GOT_INITIAL_METADATA == 1
READ_STATE_READ_CLOSED == 2
READ_STATE_STREAM_CLOSED == 3

WRITE_STATE_INITIAL == 0
WRITE_STATE_STARTED == 1
WRITE_STATE_WRITE_CLOSED == 2

STATUS_FROM_API_OVERRIDE == 0
STATUS_FROM_CORE == 1
STATUS_FROM_WIRE == 2
STATUS_SOURCE_COUNT == 3

\* grpc_status_code (include/grpc/status.h)
GRPC_STATUS_OK == 0
GRPC_STATUS_CANCELLED == 1
GRPC_STATUS_UNKNOWN == 2
GRPC_STATUS_INVALID_ARGUMENT == 3
GRPC_STATUS_DEADLINE_EXCEEDED == 4

\* grpc_stream_state as call_on_done_recv reads it: OPEN and SEND_CLOSED are
\* not told apart by the call, so both are GRPC_STREAM_OPEN here
GRPC_STREAM_OPEN == 0
GRPC_STREAM_RECV_CLOSED == 1
GRPC_STREAM_CLOSED == 2

GRPC_OP_OK == "OP_OK"
GRPC_OP_ERROR == "OP_ERROR"

REQSET_EMPTY == "X"
REQSET_DONE == "Y"

\* grpc_ioreq_op, in the order of the enum
IoreqOpSeq ==
  << "RECV_INITIAL_METADATA", "RECV_MESSAGE", "RECV_TRAILING_METADATA",
     "RECV_STATUS", "RECV_STATUS_DETAILS", "RECV_CLOSE",
     "SEND_INITIAL_METADATA", "SEND_MESSAGE", "SEND_TRAILING_METADATA",
     "SEND_STATUS", "SEND_CLOSE" >>

IoreqOps == { IoreqOpSeq[i] : i \in 1..Len(IoreqOpSeq) }

GRPC_IOREQ_OP_COUNT == Len(IoreqOpSeq)

\* the external batch vocabulary (grpc_op_type)
BatchOps ==
  { "OP_SEND_INITIAL_METADATA", "OP_SEND_MESSAGE", "OP_SEND_CLOSE_FROM_CLIENT",
    "OP_SEND_STATUS_FROM_SERVER", "OP_RECV_INITIAL_METADATA", "OP_RECV_MESSAGE",
    "OP_RECV_STATUS_ON_CLIENT", "OP_RECV_CLOSE_ON_SERVER" }

GRPC_CALL_OK == "CALL_OK"
GRPC_CALL_ERROR_TOO_MANY_OPERATIONS == "TOO_MANY_OPERATIONS"
GRPC_CALL_ERROR_ALREADY_INVOKED == "ALREADY_INVOKED"
GRPC_CALL_ERROR_NOT_ON_SERVER == "NOT_ON_SERVER"
GRPC_CALL_ERROR_NOT_ON_CLIENT == "NOT_ON_CLIENT"

Threads == { "user", "send", "recv", "alarm" }
NoThread == "free"

\* what the user cancels with: grpc_call_cancel, and grpc_call_cancel_with_status
\* without a description
UserCancels ==
  { [status |-> GRPC_STATUS_CANCELLED, details |-> "Cancelled"],
    [status |-> GRPC_STATUS_INVALID_ARGUMENT, details |-> "NULL"] }

NoDetails == "NULL"
NoMessage == [id |-> 0, len |-> 0]

\* sequencing: F applied to the value of e, as a statement that follows the
\* statements that computed e
With(e, F(_)) == CHOOSE r \in { F(v) : v \in {e} } : TRUE

(* ------------------------------------------------------ status aggregator *)

\* grpc_bbq_flush; hist_flushed records which messages were dropped
bbq_flush(c) ==
  [c EXCEPT !.incoming_queue = <<>>,
            !.hist_flushed =
               @ \cup { c.incoming_queue[i].id : i \in 1..Len(c.incoming_queue) }]

\* a slip: a client drops its queued messages on every code but OK, as a
\* server does
set_status_code_flush_on_error(c, source, status) ==
  LET c1 == [c EXCEPT !.status[source].is_set = TRUE,
                      !.status[source].code = status]
  IN IF status # GRPC_STATUS_OK /\ c1.incoming_queue # <<>> THEN bbq_flush(c1) ELSE c1

set_status_code(c, source, status) ==
  LET c1 == [c EXCEPT !.status[source].is_set = TRUE,
                      !.status[source].code = status]
      flush == IF c.is_client THEN status = GRPC_STATUS_CANCELLED
                              ELSE status # GRPC_STATUS_OK
  IN IF flush /\ c1.incoming_queue # <<>> THEN bbq_flush(c1) ELSE c1

set_status_details(c, source, details) ==
  [c EXCEPT !.status[source].details = details]

RECURSIVE first_set_source(_, _)
first_set_source(c, i) ==
  IF i >= STATUS_SOURCE_COUNT THEN STATUS_SOURCE_COUNT
  ELSE IF c.status[i].is_set THEN i
  ELSE first_set_source(c, i + 1)

\* a slip: the sources are searched from the last to the first
get_final_status_last_source(c) ==
  IF c.status[STATUS_FROM_WIRE].is_set THEN c.status[STATUS_FROM_WIRE].code
  ELSE IF c.status[STATUS_FROM_CORE].is_set THEN c.status[STATUS_FROM_CORE].code
  ELSE IF c.status[STATUS_FROM_API_OVERRIDE].is_set
  THEN c.status[STATUS_FROM_API_OVERRIDE].code
  ELSE IF c.is_client THEN GRPC_STATUS_UNKNOWN ELSE GRPC_STATUS_OK

get_final_status(c) ==
  LET i == first_set_source(c, 0)
  IN IF i < STATUS_SOURCE_COUNT THEN c.status[i].code
     ELSE IF c.is_client THEN GRPC_STATUS_UNKNOWN ELSE GRPC_STATUS_OK

\* get_final_details without the is_set test: the first source that holds a
\* detail string
get_final_details_any_source(c) ==
  IF c.status[STATUS_FROM_API_OVERRIDE].details # NoDetails
  THEN c.status[STATUS_FROM_API_OVERRIDE].details
  ELSE IF c.status[STATUS_FROM_CORE].details # NoDetails
  THEN c.status[STATUS_FROM_CORE].details
  ELSE IF c.status[STATUS_FROM_WIRE].details # NoDetails
  THEN c.status[STATUS_FROM_WIRE].details
  ELSE ""

get_final_details(c) ==
  LET i == first_set_source(c, 0)
  IN IF i < STATUS_SOURCE_COUNT /\ c.status[i].details # NoDetails
     THEN c.status[i].details
     ELSE ""

set_status_value_directly(status) == status

set_cancelled_value(status) == IF status # GRPC_STATUS_OK THEN 1 ELSE 0

(* ------------------------------------------------------------ ioreq engine *)

is_op_live(c, op) ==
  LET set == c.request_set[op]
  IN IF set \notin IoreqOps THEN FALSE
     ELSE op \notin c.masters[set].complete_mask

\* a slip: a message that went well puts the write state back to STARTED
finish_message_slot_reopens(c, i, master) ==
  IF master.status = GRPC_OP_OK
  THEN [c EXCEPT !.request_set[i] = REQSET_EMPTY,
                 !.write_state = WRITE_STATE_STARTED]
  ELSE [c EXCEPT !.write_state = WRITE_STATE_WRITE_CLOSED]

\* case GRPC_IOREQ_RECV_MESSAGE, GRPC_IOREQ_SEND_MESSAGE of the loop below: the
\* slot may be used again after a message that went well
finish_message_slot(c, i, master) ==
  IF master.status = GRPC_OP_OK
  THEN [c EXCEPT !.request_set[i] = REQSET_EMPTY]
  ELSE [c EXCEPT !.write_state = WRITE_STATE_WRITE_CLOSED]

\* a slip: every slot of a group that went well may be used again
finish_slot_all_reusable(c, i, master) ==
  finish_message_slot([c EXCEPT !.request_set[i] = REQSET_DONE], i, master)

\* the body of the loop of finish_live_ioreq_op for slot i of a finalized group
finish_slot(c, i, master) ==
  LET c1 == [c EXCEPT !.request_set[i] = REQSET_DONE]
  IN CASE i \in { "RECV_MESSAGE", "SEND_MESSAGE" } ->
            finish_message_slot(c1, i, master)
       [] i = "RECV_STATUS" ->
            [c1 EXCEPT !.sink.status =
                IF c.request_data["RECV_STATUS"] = "set_cancelled_value"
                THEN set_cancelled_value(get_final_status(c1))
                ELSE set_status_value_directly(get_final_status(c1))]
       [] i = "RECV_STATUS_DETAILS" ->
            [c1 EXCEPT !.sink.details = get_final_details(c1)]
       [] i = "RECV_INITIAL_METADATA" ->
            [c1 EXCEPT !.buffered_metadata[0] = c.sink.initial_metadata,
                       !.sink.initial_metadata = c.buffered_metadata[0]]
       [] i = "RECV_TRAILING_METADATA" ->
            [c1 EXCEPT !.buffered_metadata[1] = c.sink.trailing_metadata,
                       !.sink.trailing_metadata = c.buffered_metadata[1]]
       [] OTHER -> c1

RECURSIVE finish_group(_, _, _, _)
finish_group(c, master_set, master, i) ==
  IF i > GRPC_IOREQ_OP_COUNT THEN c
  ELSE IF c.request_set[IoreqOpSeq[i]] # master_set
       THEN finish_group(c, master_set, master, i + 1)
       ELSE finish_group(finish_slot(c, IoreqOpSeq[i], master), master_set, master, i + 1)

\* a slip: the group counts as complete as soon as one of its ops is
group_complete_on_first_op(master) == master.complete_mask # {}

\* master->complete_mask == master->need_mask
group_complete(master) == master.complete_mask = master.need_mask

\* a slip: the status of the op that finishes last is the status of the group
master_status_of_last_op(master, status) == status

\* if (status != GRPC_OP_OK) master->status = status
master_status(master, status) ==
  IF status # GRPC_OP_OK THEN status ELSE master.status

finish_live_ioreq_op(c, op, status) ==
  With(c.request_set[op], LAMBDA master_set :
  With([c.masters[master_set] EXCEPT
          !.complete_mask = @ \cup {op},
          !.status = master_status(c.masters[master_set], status)], LAMBDA master :
  With([c EXCEPT !.masters[master_set] = master], LAMBDA c1 :
  IF group_complete(master)
  THEN [finish_group(c1, master_set, master, 1) EXCEPT
          !.completed_requests =
             Append(@, [status |-> master.status, on_complete |-> master.on_complete,
                        tag |-> master.tag])]
  ELSE c1)))

finish_ioreq_op(c, op, status) ==
  IF is_op_live(c, op) THEN finish_live_ioreq_op(c, op, status) ELSE c

RECURSIVE finish_ioreq_ops(_, _, _)
\* finish_ioreq_op for each op of a list in turn, each with the same status
finish_ioreq_ops(c, ops, status) ==
  IF ops = <<>> THEN c
  ELSE finish_ioreq_ops(finish_ioreq_op(c, Head(ops), status), Tail(ops), status)

(* --------------------------------------------------------- receive side *)

\* a slip: the message is handed over and stays in the queue
grpc_bbq_pop_peek(c) ==
  [c EXCEPT !.sink.recv_message = Head(c.incoming_queue),
            !.hist_delivered = Append(@, Head(c.incoming_queue).id)]

\* grpc_bbq_pop of a queue that is not empty, into the sink of RECV_MESSAGE;
\* hist_delivered records which message was handed over
grpc_bbq_pop(c) ==
  [c EXCEPT !.sink.recv_message = Head(c.incoming_queue),
            !.incoming_queue = Tail(@),
            !.hist_delivered = Append(@, Head(c.incoming_queue).id)]

\* a slip: the close is reported with messages still in the queue
recv_close_ready_with_messages(c, empty) ==
  c.read_state = READ_STATE_STREAM_CLOSED

\* case READ_STATE_STREAM_CLOSED: if (empty)
recv_close_ready(c, empty) ==
  c.read_state = READ_STATE_STREAM_CLOSED /\ empty

finish_read_ops(c) ==
  LET live == is_op_live(c, "RECV_MESSAGE")
      popped == live /\ c.incoming_queue # <<>>
  IN
  \* grpc_bbq_pop writes the popped buffer, or NULL, into the caller's sink
  With(IF ~live THEN c
       ELSE IF popped
       THEN finish_live_ioreq_op(grpc_bbq_pop(c), "RECV_MESSAGE", GRPC_OP_OK)
       ELSE [c EXCEPT !.sink.recv_message = NoMessage], LAMBDA c2 :
  With(c2.incoming_queue = <<>>, LAMBDA empty :
  With(IF recv_close_ready(c2, empty)
       THEN finish_ioreq_op(c2, "RECV_CLOSE", GRPC_OP_OK) ELSE c2, LAMBDA c3 :
  With(IF c3.read_state >= READ_STATE_READ_CLOSED /\ empty
       THEN finish_ioreq_op(c3, "RECV_MESSAGE", GRPC_OP_OK) ELSE c3, LAMBDA c4 :
  With(IF c4.read_state >= READ_STATE_READ_CLOSED
       THEN finish_ioreq_ops(c4, << "RECV_STATUS", "RECV_STATUS_DETAILS",
                                    "RECV_TRAILING_METADATA" >>, GRPC_OP_OK)
       ELSE c4, LAMBDA c5 :
  IF c5.read_state >= READ_STATE_GOT_INITIAL_METADATA
  THEN finish_ioreq_op(c5, "RECV_INITIAL_METADATA", GRPC_OP_OK)
  ELSE c5)))))

\* a slip: the case WRITE_STATE_WRITE_CLOSED does not fall through, and the
\* case WRITE_STATE_STARTED is missing
early_out_write_ops_no_fallthrough(c) ==
  IF c.write_state = WRITE_STATE_WRITE_CLOSED
  THEN finish_ioreq_op(
         finish_ioreq_ops(c, << "SEND_MESSAGE", "SEND_STATUS",
                                "SEND_TRAILING_METADATA" >>, GRPC_OP_ERROR),
         "SEND_CLOSE", GRPC_OP_OK)
  ELSE c

early_out_write_ops(c) ==
  With(IF c.write_state = WRITE_STATE_WRITE_CLOSED
       THEN finish_ioreq_op(
              finish_ioreq_ops(c, << "SEND_MESSAGE", "SEND_STATUS",
                                     "SEND_TRAILING_METADATA" >>, GRPC_OP_ERROR),
              "SEND_CLOSE", GRPC_OP_OK)
       ELSE c, LAMBDA c1 :
  IF c1.write_state >= WRITE_STATE_STARTED
  THEN finish_ioreq_op(c1, "SEND_INITIAL_METADATA", GRPC_OP_ERROR)
  ELSE c1)

(* ------------------------------------------------------------ start_ioreq *)

\* a slip: the slots the batch has claimed are left claimed
start_ioreq_error_no_rollback(c, mutated_ops) == c

start_ioreq_error(c, mutated_ops) ==
  [c EXCEPT !.request_set =
     [op \in IoreqOps |-> IF op \in mutated_ops THEN REQSET_EMPTY ELSE @[op]]]

RECURSIVE start_ioreq_loop_claims_pending(_, _, _, _, _)
\* a slip: the loop refuses a slot that is DONE, and claims one that is pending
start_ioreq_loop_claims_pending(c, reqs, i, set, have_ops) ==
  IF i > Len(reqs) THEN [c |-> c, have_ops |-> have_ops, err |-> GRPC_CALL_OK]
  ELSE LET op == reqs[i].op
       IN IF c.request_set[op] = REQSET_DONE
          THEN [c |-> start_ioreq_error(c, have_ops), have_ops |-> have_ops,
                err |-> GRPC_CALL_ERROR_ALREADY_INVOKED]
          ELSE start_ioreq_loop_claims_pending(
                 [c EXCEPT !.request_data[op] = reqs[i].data,
                           !.request_set[op] = set],
                 reqs, i + 1, set, have_ops \cup {op})

RECURSIVE start_ioreq_loop(_, _, _, _, _)
\* the for loop of start_ioreq: [c, have_ops, err]
start_ioreq_loop(c, reqs, i, set, have_ops) ==
  IF i > Len(reqs) THEN [c |-> c, have_ops |-> have_ops, err |-> GRPC_CALL_OK]
  ELSE LET op == reqs[i].op
       IN IF c.request_set[op] \in IoreqOps
          THEN [c |-> start_ioreq_error(c, have_ops), have_ops |-> have_ops,
                err |-> GRPC_CALL_ERROR_TOO_MANY_OPERATIONS]
          ELSE IF c.request_set[op] = REQSET_DONE
          THEN [c |-> start_ioreq_error(c, have_ops), have_ops |-> have_ops,
                err |-> GRPC_CALL_ERROR_ALREADY_INVOKED]
          ELSE start_ioreq_loop(
                 [c EXCEPT !.request_data[op] = reqs[i].data,
                           !.request_set[op] = set],
                 reqs, i + 1, set, have_ops \cup {op})

\* start_ioreq: [c, err]
start_ioreq(c, reqs, completion, tag) ==
  IF reqs = <<>> THEN [c |-> c, err |-> GRPC_CALL_OK]
  ELSE
  With(reqs[1].op, LAMBDA set :
  With(start_ioreq_loop(c, reqs, 1, set, {}), LAMBDA r :
  IF r.err # GRPC_CALL_OK THEN [c |-> r.c, err |-> r.err]
  ELSE [c |-> early_out_write_ops(finish_read_ops(
                [r.c EXCEPT !.masters[set] =
                   [status |-> GRPC_OP_OK, need_mask |-> r.have_ops,
                    complete_mask |-> {}, on_complete |-> completion,
                    tag |-> tag]])),
        err |-> GRPC_CALL_OK]))

(* ---------------------------------------------------------------- send path *)

\* a slip: case WRITE_STATE_INITIAL goes on without the initial metadata
send_started_without_metadata(c, im) ==
  c.write_state # WRITE_STATE_WRITE_CLOSED

\* a slip: case WRITE_STATE_INITIAL ends with a break
send_started_no_fall_through(c, im) ==
  c.write_state = WRITE_STATE_STARTED

\* case WRITE_STATE_STARTED of fill_send_ops is entered directly, or by the
\* fall through of case WRITE_STATE_INITIAL once the initial metadata (im) is in
send_started(c, im) ==
  c.write_state = WRITE_STATE_STARTED \/ im

\* fill_send_ops: [c, produced, frames, is_last_send]; frames is what was
\* appended to call->send_ops, the content of the transport op
fill_send_ops(c) ==
  \* case WRITE_STATE_INITIAL with the initial metadata live
  With(c.write_state = WRITE_STATE_INITIAL
         /\ is_op_live(c, "SEND_INITIAL_METADATA"), LAMBDA im :
  With(IF im
       THEN [c EXCEPT !.last_send_contains = @ \cup {"SEND_INITIAL_METADATA"},
                      !.write_state = WRITE_STATE_STARTED,
                      !.send_initial_metadata_count = 0]
       ELSE c, LAMBDA c1 :
  With(IF im THEN << [type |-> "METADATA", trailing |-> FALSE] >> ELSE <<>>, LAMBDA f1 :
  \* case WRITE_STATE_STARTED is entered directly or by the fall through
  With(send_started(c, im), LAMBDA started :
  With(started /\ is_op_live(c1, "SEND_MESSAGE"), LAMBDA msg :
  With(IF msg
       THEN [c1 EXCEPT !.last_send_contains = @ \cup {"SEND_MESSAGE"}]
       ELSE c1, LAMBDA c2 :
  With(IF msg
       THEN f1 \o << [type |-> "BEGIN_MESSAGE"], [type |-> "SLICE"] >>
       ELSE f1, LAMBDA f2 :
  With(started /\ is_op_live(c2, "SEND_CLOSE"), LAMBDA close :
  With(IF close
       THEN [c2 EXCEPT !.last_send_contains = @ \cup {"SEND_CLOSE"},
                       !.write_state = WRITE_STATE_WRITE_CLOSED]
       ELSE c2, LAMBDA c3 :
  With(IF close /\ ~c.is_client
       THEN f2 \o << [type |-> "METADATA", trailing |-> TRUE,
                      status |-> c.request_data["SEND_STATUS"].code,
                      details |-> c.request_data["SEND_STATUS"].details] >>
       ELSE f2, LAMBDA f3 :
  [c |-> c3, produced |-> im \/ msg \/ close, frames |-> f3,
   is_last_send |-> close]))))))))))

(* ------------------------------------------------------------------ unlock *)

\* a slip: a live RECV_CLOSE asks for more data with messages still queued
need_more_data_close_always(c) ==
  \/ is_op_live(c, "RECV_INITIAL_METADATA")
  \/ is_op_live(c, "RECV_MESSAGE")
  \/ is_op_live(c, "RECV_TRAILING_METADATA")
  \/ is_op_live(c, "RECV_STATUS")
  \/ is_op_live(c, "RECV_STATUS_DETAILS")
  \/ is_op_live(c, "RECV_CLOSE")
  \/ (c.write_state = WRITE_STATE_INITIAL /\ ~c.is_client
        /\ c.read_state # READ_STATE_STREAM_CLOSED)

need_more_data(c) ==
  \/ is_op_live(c, "RECV_INITIAL_METADATA")
  \/ is_op_live(c, "RECV_MESSAGE")
  \/ is_op_live(c, "RECV_TRAILING_METADATA")
  \/ is_op_live(c, "RECV_STATUS")
  \/ is_op_live(c, "RECV_STATUS_DETAILS")
  \/ (is_op_live(c, "RECV_CLOSE") /\ c.incoming_queue = <<>>)
  \/ (c.write_state = WRITE_STATE_INITIAL /\ ~c.is_client
        /\ c.read_state # READ_STATE_STREAM_CLOSED)

\* a slip: a recv op is issued whenever more data is needed
may_recv_while_receiving(c) == need_more_data(c)

\* !call->receiving && need_more_data(call)
may_recv(c) == ~c.receiving /\ need_more_data(c)

\* a slip: the send ops are filled with a send op still in flight
may_send_while_sending(c) == TRUE

\* !call->sending
may_send(c) == ~c.sending

\* a slip: the completions are drained with a drain still going on
may_complete_while_completing(c) == c.completed_requests # <<>>

\* !call->completing && call->num_completed_requests != 0
may_complete(c) == ~c.completing /\ c.completed_requests # <<>>

\* the part of unlock() that runs before gpr_mu_unlock:
\* [c, op (the transport op prepared), completed (the snapshot to call back)]
unlock_locked(c) ==
  With(may_recv(c), LAMBDA recv :
  With(IF recv
       THEN [c EXCEPT !.receiving = TRUE, !.internal_refcount = @ + 1]
       ELSE c, LAMBDA c1 :
  With(IF may_send(c1) THEN fill_send_ops(c1)
       ELSE [c |-> c1, produced |-> FALSE, frames |-> <<>>,
             is_last_send |-> FALSE], LAMBDA fs :
  With(fs.produced, LAMBDA send :
  With(IF send
       THEN [fs.c EXCEPT !.sending = TRUE, !.internal_refcount = @ + 1]
       ELSE fs.c, LAMBDA c2 :
  With(may_complete(c2), LAMBDA drain :
  [c |-> IF drain
         THEN [c2 EXCEPT !.completed_requests = <<>>, !.completing = TRUE,
                         !.internal_refcount = @ + 1]
         ELSE c2,
   op |-> [recv |-> recv, send |-> send,
           frames |-> IF send THEN fs.frames ELSE <<>>,
           is_last_send |-> send /\ fs.is_last_send],
   completed |-> IF drain THEN c2.completed_requests ELSE <<>>]))))))

\* what the thread does after gpr_mu_unlock in unlock(), innermost first
unlock_frames(u) ==
  (IF u.op.recv \/ u.op.send THEN << [k |-> "execute_op", op |-> u.op] >> ELSE <<>>)
  \o (IF u.completed # <<>>
      THEN << [k |-> "on_complete", reqs |-> u.completed],
              [k |-> "completing"],
              [k |-> "unref", reason |-> "completing", allow |-> FALSE] >>
      ELSE <<>>)

(* ------------------------------------------------------- deadline alarm *)

\* call->alarm is "unset" until grpc_alarm_init, "armed" until it fires or is
\* cancelled, "cancelled" until its callback has run with success = 0, then "done"
grpc_alarm_cancel(c) ==
  [c EXCEPT !.alarm = IF @ = "armed" THEN "cancelled" ELSE @]

\* a slip: the alarm is armed without a reference of its own
set_deadline_alarm_no_ref(c) ==
  IF c.have_alarm THEN c
  ELSE [c EXCEPT !.have_alarm = TRUE, !.alarm = "armed"]

\* with the alarm already set the code logs, asserts and returns; the
\* environment of this model never asks for a second alarm
set_deadline_alarm(c) ==
  IF c.have_alarm THEN c
  ELSE [c EXCEPT !.internal_refcount = @ + 1, !.have_alarm = TRUE, !.alarm = "armed"]

(* ------------------------------------------- inbound message assembler *)

grpc_channel_get_max_message_length == MaxMessageLength

finish_message(c) ==
  [c EXCEPT !.incoming_queue =
               Append(@, [id |-> c.hist_pushed + 1, len |-> c.incoming_message]),
            !.hist_pushed = @ + 1,
            !.incoming_message = 0,
            !.reading_message = FALSE]

NoCancel == [status |-> -1, details |-> NoDetails]

\* begin_message: [c, success, cancel]; cancel is the grpc_call_cancel_with_status
\* call it makes, if any
begin_message(c, length) ==
  IF c.reading_message
  THEN [c |-> c, success |-> FALSE,
        cancel |-> [status |-> GRPC_STATUS_INVALID_ARGUMENT,
                    details |-> "Message terminated early"]]
  ELSE IF length > grpc_channel_get_max_message_length
  THEN [c |-> c, success |-> FALSE,
        cancel |-> [status |-> GRPC_STATUS_INVALID_ARGUMENT,
                    details |-> "Maximum message length exceeded"]]
  ELSE IF length > 0
  THEN [c |-> [c EXCEPT !.reading_message = TRUE, !.incoming_message_length = length],
        success |-> TRUE, cancel |-> NoCancel]
  ELSE [c |-> finish_message(c), success |-> TRUE, cancel |-> NoCancel]

\* a slip: the first slice with bytes finishes the message, whatever the
\* length that was announced
add_slice_to_message_finishes_early(c, length) ==
  IF length = 0 THEN [c |-> c, success |-> TRUE, cancel |-> NoCancel]
  ELSE IF ~c.reading_message
  THEN [c |-> c, success |-> FALSE,
        cancel |-> [status |-> GRPC_STATUS_INVALID_ARGUMENT,
                    details |-> "Received payload data while not reading a message"]]
  ELSE LET c1 == [c EXCEPT !.incoming_message = @ + length]
       IN IF c1.incoming_message > c1.incoming_message_length
          THEN [c |-> c1, success |-> FALSE,
                cancel |-> [status |-> GRPC_STATUS_INVALID_ARGUMENT,
                            details |-> "Receiving message overflow"]]
          ELSE [c |-> finish_message(c1), success |-> TRUE, cancel |-> NoCancel]

add_slice_to_message(c, length) ==
  IF length = 0 THEN [c |-> c, success |-> TRUE, cancel |-> NoCancel]
  ELSE IF ~c.reading_message
  THEN [c |-> c, success |-> FALSE,
        cancel |-> [status |-> GRPC_STATUS_INVALID_ARGUMENT,
                    details |-> "Received payload data while not reading a message"]]
  ELSE LET c1 == [c EXCEPT !.incoming_message = @ + length]
       IN IF c1.incoming_message > c1.incoming_message_length
          THEN [c |-> c1, success |-> FALSE,
                cancel |-> [status |-> GRPC_STATUS_INVALID_ARGUMENT,
                            details |-> "Receiving message overflow"]]
          ELSE IF c1.incoming_message = c1.incoming_message_length
          THEN [c |-> finish_message(c1), success |-> TRUE, cancel |-> NoCancel]
          ELSE [c |-> c1, success |-> TRUE, cancel |-> NoCancel]

(* ------------------------------------------------------- metadata router *)

Digits == << "0", "1", "2", "3", "4", "5", "6", "7", "8", "9" >>

DigitValue(ch) == (CHOOSE i \in 1..10 : Digits[i] = ch) - 1

RECURSIVE parse_digits(_, _, _)
parse_digits(buf, i, acc) ==
  IF i > Len(buf) THEN [ok |-> TRUE, value |-> acc]
  ELSE IF \A k \in 1..10 : Digits[k] # buf[i] THEN [ok |-> FALSE, value |-> 0]
  ELSE LET d == DigitValue(buf[i])
       IN \* acc * 10 + d would not fit 32 bits
          IF acc > 429496729 \/ (acc = 429496729 /\ d > 5)
          THEN [ok |-> FALSE, value |-> 0]
          ELSE parse_digits(buf, i + 1, acc * 10 + d)

\* gpr_parse_bytes_to_uint32 (src/core/support/string.c): decimal digits only,
\* at least one, no overflow of 32 bits
gpr_parse_bytes_to_uint32(buf) ==
  IF buf = <<>> THEN [ok |-> FALSE, value |-> 0] ELSE parse_digits(buf, 1, 0)

STATUS_OFFSET == 1

\* decode_status: cached is the user data of the metadata element (0 is NULL)
decode_status(value, cached) ==
  IF cached # 0 THEN cached - STATUS_OFFSET
  ELSE LET r == gpr_parse_bytes_to_uint32(value)
       IN IF r.ok THEN r.value ELSE GRPC_STATUS_UNKNOWN

\* what decode_status leaves in the user data of the element
decode_status_cache(value, cached) ==
  IF cached # 0 THEN cached
  ELSE decode_status(value, cached) + STATUS_OFFSET

RECURSIVE recv_metadata_elems(_, _, _, _)
recv_metadata_elems(c, elems, i, is_trailing) ==
  IF i > Len(elems) THEN c
  ELSE LET md == elems[i]
           k == IF is_trailing THEN 1 ELSE 0
           c1 == CASE md.key = "grpc-status" ->
                        set_status_code(c, STATUS_FROM_WIRE,
                                        decode_status(md.bytes, md.user_data))
                   [] md.key = "grpc-message" ->
                        set_status_details(c, STATUS_FROM_WIRE, md.value)
                   [] OTHER ->
                        [c EXCEPT !.buffered_metadata[k] = @ + 1,
                                  !.owned_metadata_count = @ + 1]
       IN recv_metadata_elems(c1, elems, i + 1, is_trailing)

\* a slip: the batch that follows the initial metadata is not yet trailing
recv_metadata_trailing_late(c, md) ==
  With(c.read_state > READ_STATE_GOT_INITIAL_METADATA, LAMBDA is_trailing :
  With(recv_metadata_elems(c, md.elems, 1, is_trailing), LAMBDA c1 :
  With(IF md.deadline THEN set_deadline_alarm(c1) ELSE c1, LAMBDA c2 :
  IF ~is_trailing
  THEN [c2 EXCEPT !.read_state = READ_STATE_GOT_INITIAL_METADATA]
  ELSE c2)))

recv_metadata(c, md) ==
  With(c.read_state >= READ_STATE_GOT_INITIAL_METADATA, LAMBDA is_trailing :
  With(recv_metadata_elems(c, md.elems, 1, is_trailing), LAMBDA c1 :
  With(IF md.deadline THEN set_deadline_alarm(c1) ELSE c1, LAMBDA c2 :
  IF ~is_trailing
  THEN [c2 EXCEPT !.read_state = READ_STATE_GOT_INITIAL_METADATA]
  ELSE c2)))

(* ------------------------------------------------------ transport callbacks *)

RECURSIVE recv_loop(_, _, _)
\* the for loop of call_on_done_recv over recv_ops: [c, success, cancel]
recv_loop(c, ops, i) ==
  IF i > Len(ops) THEN [c |-> c, success |-> TRUE, cancel |-> NoCancel]
  ELSE
  With(ops[i], LAMBDA op :
  With(CASE op.type = "METADATA" ->
              [c |-> recv_metadata(c, op.md), success |-> TRUE, cancel |-> NoCancel]
         [] op.type = "BEGIN_MESSAGE" -> begin_message(c, op.length)
         [] op.type = "SLICE" -> add_slice_to_message(c, op.length)
         [] OTHER -> [c |-> c, success |-> TRUE, cancel |-> NoCancel], LAMBDA r :
  IF r.success THEN recv_loop(r.c, ops, i + 1) ELSE r))

\* call_on_done_recv after its loop, up to unlock()
recv_finish(c) ==
  With(IF c.recv_state = GRPC_STREAM_RECV_CLOSED
       THEN [c EXCEPT !.read_state = READ_STATE_READ_CLOSED]
       ELSE c, LAMBDA c1 :
  With(IF c1.recv_state = GRPC_STREAM_CLOSED
       THEN [(IF c1.have_alarm THEN grpc_alarm_cancel(c1) ELSE c1)
               EXCEPT !.read_state = READ_STATE_STREAM_CLOSED,
                      !.have_alarm = FALSE]
       ELSE c1, LAMBDA c2 :
  finish_read_ops(c2)))

recv_failed(c) ==
  finish_ioreq_ops(c, << "RECV_MESSAGE", "RECV_STATUS", "RECV_CLOSE",
                         "RECV_TRAILING_METADATA", "RECV_INITIAL_METADATA",
                         "RECV_STATUS_DETAILS" >>, GRPC_OP_ERROR)

\* call_on_done_send between lock() and unlock()
done_send(c, success) ==
  With(IF success THEN GRPC_OP_OK ELSE GRPC_OP_ERROR, LAMBDA error :
  With(IF "SEND_INITIAL_METADATA" \in c.last_send_contains
       THEN finish_ioreq_op(c, "SEND_INITIAL_METADATA", error) ELSE c, LAMBDA c1 :
  With(IF "SEND_MESSAGE" \in c1.last_send_contains
       THEN finish_ioreq_op(c1, "SEND_MESSAGE", error) ELSE c1, LAMBDA c2 :
  With(IF "SEND_CLOSE" \in c2.last_send_contains
       THEN finish_ioreq_op(
              finish_ioreq_ops(c2, << "SEND_TRAILING_METADATA", "SEND_STATUS" >>,
                               error),
              "SEND_CLOSE", GRPC_OP_OK)
       ELSE c2, LAMBDA c3 :
  [c3 EXCEPT !.last_send_contains = {}, !.sending = FALSE]))))

(* ------------------------------------------------------------ batch adapter *)

\* the ioreqs one batch op is rewritten into; of the request data only the
\* status to send and the set_value function of RECV_STATUS are kept
batch_reqs(op) ==
  CASE op.op = "OP_SEND_INITIAL_METADATA" ->
         << [op |-> "SEND_INITIAL_METADATA", data |-> "none"] >>
    [] op.op = "OP_SEND_MESSAGE" ->
         << [op |-> "SEND_MESSAGE", data |-> "none"] >>
    [] op.op = "OP_SEND_CLOSE_FROM_CLIENT" ->
         << [op |-> "SEND_CLOSE", data |-> "none"] >>
    [] op.op = "OP_SEND_STATUS_FROM_SERVER" ->
         << [op |-> "SEND_TRAILING_METADATA", data |-> "none"],
            [op |-> "SEND_STATUS", data |-> op.status],
            [op |-> "SEND_CLOSE", data |-> "none"] >>
    [] op.op = "OP_RECV_INITIAL_METADATA" ->
         << [op |-> "RECV_INITIAL_METADATA", data |-> "none"] >>
    [] op.op = "OP_RECV_MESSAGE" ->
         << [op |-> "RECV_MESSAGE", data |-> "none"] >>
    [] op.op = "OP_RECV_STATUS_ON_CLIENT" ->
         << [op |-> "RECV_STATUS", data |-> "set_status_value_directly"],
            [op |-> "RECV_STATUS_DETAILS", data |-> "none"],
            [op |-> "RECV_TRAILING_METADATA", data |-> "none"],
            [op |-> "RECV_CLOSE", data |-> "none"] >>
    [] op.op = "OP_RECV_CLOSE_ON_SERVER" ->
         << [op |-> "RECV_STATUS", data |-> "set_cancelled_value"],
            [op |-> "RECV_CLOSE", data |-> "none"] >>

\* a slip: a server may close the sending side the way a client does
batch_role_error_close_on_server(is_client, op) ==
  CASE op.op \in { "OP_RECV_INITIAL_METADATA", "OP_RECV_STATUS_ON_CLIENT" }
         /\ ~is_client ->
         GRPC_CALL_ERROR_NOT_ON_SERVER
    [] op.op = "OP_SEND_STATUS_FROM_SERVER" /\ is_client ->
         GRPC_CALL_ERROR_NOT_ON_CLIENT
    [] OTHER -> GRPC_CALL_OK

\* the role check grpc_call_start_batch makes for one batch op
batch_role_error(is_client, op) ==
  CASE op.op \in { "OP_SEND_CLOSE_FROM_CLIENT", "OP_RECV_INITIAL_METADATA",
                   "OP_RECV_STATUS_ON_CLIENT" } /\ ~is_client ->
         GRPC_CALL_ERROR_NOT_ON_SERVER
    [] op.op = "OP_SEND_STATUS_FROM_SERVER" /\ is_client ->
         GRPC_CALL_ERROR_NOT_ON_CLIENT
    [] OTHER -> GRPC_CALL_OK

RECURSIVE batch_rewrite(_, _, _, _)
\* the rewrite loop of grpc_call_start_batch: [err, reqs]
batch_rewrite(is_client, ops, in, reqs) ==
  IF in > Len(ops) THEN [err |-> GRPC_CALL_OK, reqs |-> reqs]
  ELSE LET e == batch_role_error(is_client, ops[in])
       IN IF e # GRPC_CALL_OK THEN [err |-> e, reqs |-> reqs]
          ELSE batch_rewrite(is_client, ops, in + 1, reqs \o batch_reqs(ops[in]))

(* ------------------------------------------------------------- environment *)

SeqsUpTo(S, n) == UNION { [1..k -> S] : k \in 0..n }

\* the tags of the calls the user makes: its k-th call carries tag k
Tags == 1..MaxBatches

\* what a server may send as its status
StatusToSend == { [code |-> GRPC_STATUS_OK, details |-> NoDetails],
                  [code |-> GRPC_STATUS_INVALID_ARGUMENT, details |-> "nope"] }

\* one op of a grpc_call_start_batch batch
BatchOp(o) == [op |-> o, status |-> NoCancel]

SendStatusOp(s) == [op |-> "OP_SEND_STATUS_FROM_SERVER", status |-> s]

\* one grpc_ioreq of a direct grpc_call_start_ioreq_and_call_back
Ioreq(o) == [op |-> o, data |-> "none"]

\* the values of a grpc-status element on the wire: the string and its bytes
WireStatusValues == { [value |-> "0", bytes |-> << "0" >>],
                      [value |-> "1", bytes |-> << "1" >>] }

OtherElem == [key |-> "other", value |-> "v", bytes |-> << "v" >>, user_data |-> 0]

MessageElem ==
  [key |-> "grpc-message", value |-> "wire details", bytes |-> <<>>, user_data |-> 0]

StatusElem(v) ==
  [key |-> "grpc-status", value |-> v.value, bytes |-> v.bytes, user_data |-> 0]

\* the stream ops of a received batch
NoOp == [type |-> "NO_OP"]

BeginMessage(l) == [type |-> "BEGIN_MESSAGE", length |-> l]

Slice(l) == [type |-> "SLICE", length |-> l]

Metadata(e, d) == [type |-> "METADATA", md |-> [elems |-> e, deadline |-> d]]

\* how many ops of a received batch satisfy P
CountOps(ops, P(_)) == Cardinality({ i \in 1..Len(ops) : P(ops[i]) })

IsBegin(op) == op.type = "BEGIN_MESSAGE"
IsOther(op) == op.type = "METADATA" /\ op.md.elems # <<>> /\ op.md.elems[1].key = "other"
HasDeadline(op) == op.type = "METADATA" /\ op.md.deadline

\* the batches of `menu` the transport may deliver to call c: within the bounds
\* of the model, and a deadline only in the initial metadata of a server call
RecvBatches(c, menu) ==
  { ops \in menu :
      /\ c.hist_pushed + CountOps(ops, IsBegin) <= MaxMsgs
      /\ c.owned_metadata_count + CountOps(ops, IsOther) <= MaxMd
      /\ \A i \in 1..Len(ops) :
           HasDeadline(ops[i]) =>
             /\ ~c.is_client /\ ~c.have_alarm
             /\ c.read_state = READ_STATE_INITIAL
             /\ \A j \in 1..(i - 1) : ops[j].type # "METADATA" }

\* the stream states the transport may report next: it never reopens a side
RecvStates(c) == { s \in GRPC_STREAM_OPEN..GRPC_STREAM_CLOSED : s >= c.recv_state }

(* ------------------------------------------------------------------- Init *)

\* a slip: every slot of a new call is empty, whatever its role
initial_request_set_all_empty(is_client) == [op \in IoreqOps |-> REQSET_EMPTY]

\* every slot starts empty, and for a client the slots of the ops only a server
\* sends are done from the start
initial_request_set(is_client) ==
  [op \in IoreqOps |->
     IF is_client /\ op \in {"SEND_TRAILING_METADATA", "SEND_STATUS"}
     THEN REQSET_DONE ELSE REQSET_EMPTY]

\* grpc_call_create
grpc_call_create(is_client, deadline) ==
  [ is_client |-> is_client,
    read_state |-> READ_STATE_INITIAL,
    write_state |-> WRITE_STATE_INITIAL,
    have_alarm |-> deadline,
    alarm |-> IF deadline THEN "armed" ELSE "unset",
    sending |-> FALSE,
    receiving |-> ~is_client,
    completing |-> FALSE,
    reading_message |-> FALSE,
    last_send_contains |-> {},
    request_set |-> initial_request_set(is_client),
    \* memset: a zeroed grpc_ioreq_data read as send_status is code 0, no details
    request_data |-> [op \in IoreqOps |->
                        IF op = "SEND_STATUS"
                        THEN [code |-> 0, details |-> NoDetails] ELSE "none"],
    masters |-> [op \in IoreqOps |->
                   [status |-> GRPC_OP_OK, need_mask |-> {}, complete_mask |-> {},
                    on_complete |-> "NULL", tag |-> 0]],
    completed_requests |-> <<>>,
    incoming_queue |-> <<>>,
    buffered_metadata |-> [k \in 0..1 |-> 0],
    owned_metadata_count |-> 0,
    status |-> [i \in 0..(STATUS_SOURCE_COUNT - 1) |->
                  [is_set |-> FALSE, code |-> GRPC_STATUS_OK, details |-> NoDetails]],
    internal_refcount |-> 1 + (IF is_client THEN 0 ELSE 1) + (IF deadline THEN 1 ELSE 0),
    send_initial_metadata_count |-> 0,
    recv_state |-> GRPC_STREAM_OPEN,
    incoming_message |-> 0,
    incoming_message_length |-> 0,
    \* the memory of the caller that request_data points to
    sink |-> [status |-> -1, details |-> NoDetails, recv_message |-> NoMessage,
              initial_metadata |-> 0, trailing_metadata |-> 0],
    \* bookkeeping of the model, not fields of the struct
    hist_pushed |-> 0,
    hist_flushed |-> {},
    hist_delivered |-> <<>>,
    freed |-> FALSE ]

\* the state after grpc_call_create, for a role in `roles`, with a deadline
\* (clients only) if `deadlines` allows one
InitWith(roles, deadlines) ==
  /\ \E is_client \in roles, deadline \in deadlines :
       /\ (deadline => is_client)
       /\ call = grpc_call_create(is_client, deadline)
       /\ transport = [send_inflight |-> 0,
                       recv_inflight |-> IF is_client THEN 0 ELSE 1,
                       sent |-> <<>>, cancels |-> {}]
  /\ mu = NoThread
  /\ th = [t \in Threads |-> <<>>]
  /\ cq = [begun |-> [g \in Tags |-> 0], posted |-> [g \in Tags |-> 0],
           status |-> [g \in Tags |-> "none"]]
  /\ user = [calls |-> 0, cancels |-> 0, destroyed |-> FALSE,
             ret |-> [g \in Tags |-> "none"]]

(* ---------------------------------------------------------------- actions *)

Idle(t) == th[t] = <<>>

Top(t) == Head(th[t])

\* lock(call): the thread at frame kind k takes the mutex, which must be free
Lock(t, k) ==
  /\ th[t] # <<>> /\ Top(t).k = k
  /\ mu = NoThread

\* gpr_mu_unlock(&call->mu)
gpr_mu_unlock(t) == NoThread

\* a critical section from lock() to the gpr_mu_unlock of unlock(): the call
\* becomes c with unlock()'s own changes, the mutex is free again, and the
\* thread is left with what unlock() does outside the mutex and then `rest`
Unlock(t, c, rest) ==
  \E u \in { unlock_locked(c) } :
    /\ call' = u.c
    /\ mu' = gpr_mu_unlock(t)
    /\ th' = [th EXCEPT ![t] = unlock_frames(u) \o rest]

(* grpc_call_start_batch ------------------------------------------------- *)

\* the user may make another call of the API
UserReady == Idle("user") /\ ~user.destroyed /\ user.calls < MaxBatches

\* a batch with a role violation is refused before anything is touched
StartBatchRefused(ops) ==
  /\ UserReady
  /\ ops # <<>>
  /\ batch_rewrite(call.is_client, ops, 1, <<>>).err # GRPC_CALL_OK
  /\ user' = [user EXCEPT !.calls = @ + 1,
                          !.ret[user.calls + 1] =
                             batch_rewrite(call.is_client, ops, 1, <<>>).err]
  /\ UNCHANGED <<call, mu, th, transport, cq>>

\* nops == 0: begin_op and end_op at once
StartBatchEmpty ==
  /\ UserReady
  /\ LET tag == user.calls + 1
     IN /\ cq' = [cq EXCEPT !.begun[tag] = @ + 1, !.posted[tag] = @ + 1,
                             !.status[tag] = GRPC_OP_OK]
        /\ user' = [user EXCEPT !.calls = tag, !.ret[tag] = GRPC_CALL_OK]
  /\ UNCHANGED <<call, mu, th, transport>>

\* a batch that passes the role check: begin_op, then on to
\* grpc_call_start_ioreq_and_call_back; which batch it is, is read in StartIoreq
StartBatch ==
  /\ UserReady
  /\ LET tag == user.calls + 1
     IN /\ cq' = [cq EXCEPT !.begun[tag] = @ + 1]
        /\ user' = [user EXCEPT !.calls = tag, !.ret[tag] = "running"]
        /\ th' = [th EXCEPT !["user"] =
                    << [k |-> "start_ioreq", api |-> "batch", tag |-> tag] >>]
  /\ UNCHANGED <<call, mu, transport>>

\* grpc_call_start_ioreq_and_call_back called by the user directly
StartIoreqDirect ==
  /\ UserReady
  /\ LET tag == user.calls + 1
     IN /\ user' = [user EXCEPT !.calls = tag, !.ret[tag] = "running"]
        /\ th' = [th EXCEPT !["user"] =
                    << [k |-> "start_ioreq", api |-> "ioreq", tag |-> tag] >>]
  /\ UNCHANGED <<call, mu, transport, cq>>

\* the requests a start_ioreq frame may carry: a list of `ioreqs` from the user,
\* or what grpc_call_start_batch makes of a batch of `batches`
FrameReqs(f, batches, ioreqs) ==
  IF f.api = "ioreq" THEN ioreqs
  ELSE { batch_rewrite(call.is_client, ops, 1, <<>>).reqs :
           ops \in { b \in batches :
                       /\ b # <<>>
                       /\ batch_rewrite(call.is_client, b, 1, <<>>).err = GRPC_CALL_OK } }

\* the on_complete that comes with the requests of a start_ioreq frame:
\* finish_batch from grpc_call_start_batch, the caller's own otherwise
CompletionOf(f) == IF f.api = "batch" THEN "finish_batch" ELSE "caller"

\* lock(); start_ioreq(); unlock() of grpc_call_start_ioreq_and_call_back
StartIoreq(t, batches, ioreqs) ==
  /\ Lock(t, "start_ioreq")
  /\ \E reqs \in FrameReqs(Top(t), batches, ioreqs) :
       \E r \in { start_ioreq(call, reqs, CompletionOf(Top(t)), Top(t).tag) } :
         /\ Unlock(t, r.c, Tail(th[t]))
         /\ user' = [user EXCEPT !.ret[Top(t).tag] = r.err]
  /\ UNCHANGED <<transport, cq>>

(* cancel and destroy ----------------------------------------------------- *)

\* grpc_call_cancel, grpc_call_cancel_with_status
Cancel ==
  /\ Idle("user") /\ ~user.destroyed /\ user.cancels < MaxCancels
  /\ user' = [user EXCEPT !.cancels = @ + 1]
  /\ th' = [th EXCEPT !["user"] = << [k |-> "cancel_with_status"] >>]
  /\ UNCHANGED <<call, mu, transport, cq>>

\* the status and description a cancel_with_status frame may carry: the
\* frame's own (a cancel of the call itself), or the user's choice of `cancels`
CancelArgs(f, cancels) ==
  IF "status" \in DOMAIN f THEN { [status |-> f.status, details |-> f.details] }
  ELSE cancels

\* lock(); set_status_code; set_status_details; unlock() of cancel_with_status
CancelWithStatus(t, cancels) ==
  /\ Lock(t, "cancel_with_status")
  /\ \E a \in CancelArgs(Top(t), cancels) :
       Unlock(t,
              set_status_details(
                set_status_code(call, STATUS_FROM_API_OVERRIDE, a.status),
                STATUS_FROM_API_OVERRIDE, a.details),
              << [k |-> "execute_cancel", status |-> a.status] >> \o Tail(th[t]))
  /\ UNCHANGED <<transport, cq, user>>

\* execute_op(c, &op) of cancel_with_status: the cancel goes down the stack
ExecuteCancel(t) ==
  /\ th[t] # <<>> /\ Top(t).k = "execute_cancel"
  /\ transport' = [transport EXCEPT !.cancels = @ \cup { Top(t).status }]
  /\ th' = [th EXCEPT ![t] = Tail(@)]
  /\ UNCHANGED <<call, mu, cq, user>>

\* grpc_call_destroy
Destroy ==
  /\ Idle("user") /\ ~user.destroyed
  /\ user' = [user EXCEPT !.destroyed = TRUE]
  /\ th' = [th EXCEPT !["user"] = << [k |-> "destroy"] >>]
  /\ UNCHANGED <<call, mu, transport, cq>>

\* the critical section of grpc_call_destroy, then its cancel and unref
DestroyLocked(t) ==
  /\ Lock(t, "destroy")
  /\ LET c1 == IF call.have_alarm
               THEN [grpc_alarm_cancel(call) EXCEPT !.have_alarm = FALSE]
               ELSE call
         cancel == call.read_state # READ_STATE_STREAM_CLOSED
     IN Unlock(t, c1,
               (IF cancel
                THEN << [k |-> "cancel_with_status",
                         status |-> GRPC_STATUS_CANCELLED, details |-> "Cancelled"] >>
                ELSE <<>>)
               \o << [k |-> "unref", reason |-> "destroy", allow |-> TRUE] >>
               \o Tail(th[t]))
  /\ UNCHANGED <<transport, cq, user>>

(* the transport and the alarm ------------------------------------------- *)

\* the transport calls on_done_send for the send op it was given
TransportDoneSend(success) ==
  /\ Idle("send") /\ transport.send_inflight > 0
  /\ transport' = [transport EXCEPT !.send_inflight = @ - 1]
  /\ th' = [th EXCEPT !["send"] =
              << [k |-> "done_send", success |-> success],
                 [k |-> "unref", reason |-> "sending", allow |-> FALSE] >>]
  /\ UNCHANGED <<call, mu, cq, user>>

\* call_on_done_send, from lock() to unlock()
CallOnDoneSend(t) ==
  /\ Lock(t, "done_send")
  /\ Unlock(t, done_send(call, Top(t).success), Tail(th[t]))
  /\ UNCHANGED <<transport, cq, user>>

\* the transport calls on_done_recv for the recv op it was given; what it
\* delivers is read in CallOnDoneRecv
TransportDoneRecv(success) ==
  /\ Idle("recv") /\ transport.recv_inflight > 0
  /\ transport' = [transport EXCEPT !.recv_inflight = @ - 1]
  /\ th' = [th EXCEPT !["recv"] =
              << [k |-> "done_recv", success |-> success],
                 [k |-> "unref", reason |-> "receiving", allow |-> FALSE] >>]
  /\ UNCHANGED <<call, mu, cq, user>>

\* call_on_done_recv with success = 0
CallOnDoneRecvFailed(t) ==
  /\ Lock(t, "done_recv")
  /\ ~Top(t).success
  /\ Unlock(t, recv_failed([call EXCEPT !.receiving = FALSE]), Tail(th[t]))
  /\ UNCHANGED <<transport, cq, user>>

\* call_on_done_recv with success = 1, a batch of `menu` that the assembler
\* accepts, and a stream state of `states`
CallOnDoneRecv(t, menu, states) ==
  /\ Lock(t, "done_recv")
  /\ Top(t).success
  /\ \E ops \in RecvBatches(call, menu), state \in RecvStates(call) \cap states :
       \E r \in { recv_loop([call EXCEPT !.receiving = FALSE, !.recv_state = state],
                            ops, 1) } :
         /\ r.success
         /\ Unlock(t, recv_finish(r.c), Tail(th[t]))
  /\ UNCHANGED <<transport, cq, user>>

\* lock() by the thread that holds the mutex: gpr_mu is a default pthread mutex,
\* whose relocking is undefined and in practice never returns, and the win32
\* port asserts that the mutex is not locked, which aborts the process
gpr_mu_lock_held == { "blocks", "aborts" }

\* call_on_done_recv with a batch the assembler refuses: begin_message or
\* add_slice_to_message calls grpc_call_cancel_with_status, whose lock() finds
\* the mutex held by this very thread
CallOnDoneRecvViolation(t, menu) ==
  /\ Lock(t, "done_recv")
  /\ Top(t).success
  /\ \E ops \in RecvBatches(call, menu), state \in RecvStates(call) :
       \E r \in { recv_loop([call EXCEPT !.receiving = FALSE, !.recv_state = state],
                            ops, 1) } :
         /\ ~r.success
         /\ call' = r.c
         /\ mu' = t
         /\ \E outcome \in gpr_mu_lock_held :
              th' = IF outcome = "blocks"
                    THEN [th EXCEPT ![t] =
                            << [k |-> "cancel_with_status",
                                status |-> r.cancel.status,
                                details |-> r.cancel.details] >> \o th[t]]
                    ELSE [u \in Threads |->
                            << [k |-> "abort", status |-> r.cancel.status,
                                details |-> r.cancel.details] >> \o th[u]]
  /\ UNCHANGED <<transport, cq, user>>

\* a slip: the alarm cancels a client the way it cancels a server
call_alarm_plain_cancel(is_client) ==
  [k |-> "cancel_with_status", status |-> GRPC_STATUS_CANCELLED,
   details |-> "Cancelled"]

\* the cancel call_alarm makes when the deadline has passed
call_alarm_cancel(is_client) ==
  IF is_client
  THEN [k |-> "cancel_with_status", status |-> GRPC_STATUS_DEADLINE_EXCEEDED,
        details |-> "Deadline Exceeded"]
  ELSE [k |-> "cancel_with_status", status |-> GRPC_STATUS_CANCELLED,
        details |-> "Cancelled"]

\* the alarm's callback runs: with success if the deadline passed, without if
\* the alarm was cancelled
AlarmFire ==
  /\ Idle("alarm") /\ call.alarm \in { "armed", "cancelled" }
  /\ call' = [call EXCEPT !.alarm = "done"]
  /\ th' = [th EXCEPT !["alarm"] =
              (IF call.alarm = "armed"
               THEN << call_alarm_cancel(call.is_client) >>
               ELSE <<>>)
              \o << [k |-> "unref", reason |-> "alarm", allow |-> TRUE] >>]
  /\ UNCHANGED <<mu, transport, cq, user>>

(* outside the mutex ------------------------------------------------------ *)

\* execute_op(call, &op) of unlock(): the op enters the channel stack
ExecuteOp(t) ==
  /\ th[t] # <<>> /\ Top(t).k = "execute_op"
  /\ LET op == Top(t).op
     IN transport' =
          [transport EXCEPT
             !.send_inflight = @ + (IF op.send THEN 1 ELSE 0),
             !.recv_inflight = @ + (IF op.recv THEN 1 ELSE 0),
             !.sent = IF op.send
                      THEN Append(@, [frames |-> op.frames,
                                      is_last_send |-> op.is_last_send])
                      ELSE @]
  /\ th' = [th EXCEPT ![t] = Tail(@)]
  /\ UNCHANGED <<call, mu, cq, user>>

\* a slip: finish_batch posts the result it is given
finish_batch_with_result(result) == result

\* finish_batch: the status that grpc_cq_end_op is called with
finish_batch(result) == GRPC_OP_OK

\* the loop of unlock() over its snapshot: one on_complete call; what is posted
\* is the status that reaches the completion queue through finish_batch, or
\* the status the caller's own callback is given
OnComplete(t) ==
  /\ th[t] # <<>> /\ Top(t).k = "on_complete"
  /\ LET cr == Head(Top(t).reqs)
         more == Tail(Top(t).reqs)
     IN /\ cq' = [cq EXCEPT !.posted[cr.tag] = @ + 1,
                             !.status[cr.tag] =
                                IF cr.on_complete = "finish_batch"
                                THEN finish_batch(cr.status) ELSE cr.status]
        /\ th' = [th EXCEPT ![t] =
                    (IF more = <<>> THEN <<>>
                     ELSE << [k |-> "on_complete", reqs |-> more] >>) \o Tail(@)]
  /\ UNCHANGED <<call, mu, transport, user>>

\* lock(call); call->completing = 0; unlock(call) at the end of unlock()
Completing(t) ==
  /\ Lock(t, "completing")
  /\ Unlock(t, [call EXCEPT !.completing = FALSE], Tail(th[t]))
  /\ UNCHANGED <<transport, cq, user>>

\* grpc_call_internal_unref, and destroy_call when the count reaches zero
Unref(t) ==
  /\ th[t] # <<>> /\ Top(t).k = "unref"
  /\ call' = [call EXCEPT !.internal_refcount = @ - 1,
                          !.freed = @ \/ call.internal_refcount = 1]
  /\ th' = [th EXCEPT ![t] = Tail(@)]
  /\ UNCHANGED <<mu, transport, cq, user>>

\* what every thread does once it is inside a call or a callback that needs no
\* input of the environment
Step(t) ==
  \/ CallOnDoneSend(t)
  \/ CallOnDoneRecvFailed(t)
  \/ ExecuteOp(t)
  \/ OnComplete(t)
  \/ Completing(t)
  \/ Unref(t)

(* ------------------------------------------------ the call engine: Spec *)

AnyStreamState == GRPC_STREAM_OPEN..GRPC_STREAM_CLOSED

\* the batches the user submits: every batch of up to MaxBatchLen of these ops
EngineOps == { BatchOp(o) : o \in { "OP_SEND_INITIAL_METADATA", "OP_SEND_MESSAGE",
                                     "OP_SEND_CLOSE_FROM_CLIENT", "OP_RECV_MESSAGE" } }

EngineBatches == SeqsUpTo(EngineOps, MaxBatchLen)

\* what one receive callback delivers: nothing, one whole empty message, or
\* metadata without elements
EngineRecvs == { <<>>, << BeginMessage(0) >>, << Metadata(<<>>, FALSE) >> }

\* a client or a server call, without a deadline
Init == InitWith(BOOLEAN, {FALSE})

Next ==
  \/ \E ops \in EngineBatches : StartBatchRefused(ops)
  \/ StartBatchEmpty
  \/ StartBatch
  \/ \E success \in BOOLEAN : TransportDoneSend(success)
  \/ \E success \in BOOLEAN : TransportDoneRecv(success)
  \/ \E t \in Threads :
       \/ StartIoreq(t, EngineBatches, {})
       \/ CallOnDoneRecv(t, EngineRecvs, AnyStreamState)
       \/ Step(t)

Spec == Init /\ [][Next]_vars

(* ------------------------------------- direct ioreq submissions: SpecIoreq *)

\* the lists the user submits: every list of up to MaxBatchLen of these ioreqs
IoreqReqs ==
  { Ioreq(o) : o \in { "SEND_INITIAL_METADATA", "SEND_MESSAGE",
                       "SEND_TRAILING_METADATA", "RECV_MESSAGE" } }
  \cup { [op |-> "SEND_STATUS", data |-> s] : s \in StatusToSend }

IoreqLists == SeqsUpTo(IoreqReqs, MaxBatchLen)

NextIoreq ==
  \/ StartIoreqDirect
  \/ \E success \in BOOLEAN : TransportDoneSend(success)
  \/ TransportDoneRecv(TRUE)
  \/ \E t \in Threads :
       \/ StartIoreq(t, {}, IoreqLists)
       \/ CallOnDoneRecv(t, { <<>> }, AnyStreamState)
       \/ CallOnDoneSend(t)
       \/ ExecuteOp(t)
       \/ OnComplete(t)
       \/ Completing(t)
       \/ Unref(t)

SpecIoreq == Init /\ [][NextIoreq]_vars

(* ------------------------------------------- the final status: SpecStatus *)

\* the user asks for the status, through either API
StatusBatches ==
  { << BatchOp("OP_RECV_STATUS_ON_CLIENT") >>, << BatchOp("OP_RECV_CLOSE_ON_SERVER") >> }

StatusIoreqs ==
  { << [op |-> "RECV_STATUS", data |-> "set_status_value_directly"] >> }

\* what one receive callback delivers: nothing, or metadata that carries a status
StatusRecvs ==
  { <<>> } \cup { << Metadata(<< StatusElem(v) >>, FALSE) >> : v \in WireStatusValues }

NextStatus ==
  \/ \E ops \in StatusBatches : StartBatchRefused(ops)
  \/ StartBatch
  \/ StartIoreqDirect
  \/ Cancel
  \/ Destroy
  \/ \E success \in BOOLEAN : TransportDoneRecv(success)
  \/ \E t \in Threads :
       \/ StartIoreq(t, StatusBatches, StatusIoreqs)
       \/ CancelWithStatus(t, UserCancels)
       \/ ExecuteCancel(t)
       \/ DestroyLocked(t)
       \/ CallOnDoneRecv(t, StatusRecvs, AnyStreamState)
       \/ CallOnDoneRecvFailed(t)
       \/ ExecuteOp(t)
       \/ OnComplete(t)
       \/ Completing(t)
       \/ Unref(t)

SpecStatus == Init /\ [][NextStatus]_vars

(* ------------------------------- cancels, deadline and destroy: SpecCancel *)

\* a client call, with a deadline or without
InitCancel == InitWith({TRUE}, BOOLEAN)

CancelBatches == { << BatchOp("OP_RECV_STATUS_ON_CLIENT") >> }

NextCancel ==
  \/ StartBatch
  \/ Cancel
  \/ Destroy
  \/ AlarmFire
  \/ \E success \in BOOLEAN : TransportDoneRecv(success)
  \/ \E t \in Threads :
       \/ StartIoreq(t, CancelBatches, {})
       \/ CancelWithStatus(t, UserCancels)
       \/ ExecuteCancel(t)
       \/ DestroyLocked(t)
       \/ CallOnDoneRecv(t, StatusRecvs, AnyStreamState)
       \/ CallOnDoneRecvFailed(t)
       \/ ExecuteOp(t)
       \/ OnComplete(t)
       \/ Completing(t)
       \/ Unref(t)

SpecCancel == InitCancel /\ [][NextCancel]_vars

(* ------------------------------------------ a fair environment: SpecFair *)

\* a user that keeps to the protocol: its first batch of sends carries the
\* initial metadata, and it closes its side once
FairBatches(c) ==
  { << BatchOp("OP_RECV_MESSAGE") >> }
  \cup (IF c.request_set["SEND_INITIAL_METADATA"] = REQSET_EMPTY
        THEN { << BatchOp("OP_SEND_INITIAL_METADATA"), BatchOp("OP_SEND_MESSAGE") >> }
        ELSE { << BatchOp("OP_SEND_CLOSE_FROM_CLIENT") >> })

\* what each thread does of its own accord once the user or the transport has
\* started it; the peer closes the stream with its first answer
FairStep(t) ==
  \/ StartIoreq(t, FairBatches(call), {})
  \/ CallOnDoneRecv(t, { <<>> }, { GRPC_STREAM_CLOSED })
  \/ Step(t)

\* the transport answers the send op and the recv op it was given
FairTransport ==
  \/ \E success \in BOOLEAN : TransportDoneSend(success)
  \/ \E success \in BOOLEAN : TransportDoneRecv(success)

InitFair == InitWith({TRUE}, {FALSE})

NextFair ==
  \/ StartBatch
  \/ FairTransport
  \/ \E t \in Threads : FairStep(t)

\* no thread stops in the middle of a call or a callback, and the transport
\* answers every op; the user is free to stop making calls
Fairness ==
  /\ WF_vars(FairTransport)
  /\ \A t \in Threads : WF_vars(FairStep(t))

SpecFair == InitFair /\ [][NextFair]_vars /\ Fairness

(* ============================================================== the claims *)

(* what the claims observe ------------------------------------------------ *)

\* the places of thread t's frames of kind k
FramesOf(t, k) == { i \in 1..Len(th[t]) : th[t][i].k = k }

\* the completions with tag g that wait in call->completed_requests
InQueue(g) ==
  Cardinality({ i \in 1..Len(call.completed_requests) :
                  call.completed_requests[i].tag = g })

\* the completions with tag g in a snapshot of unlock() that is being called back
InDrain(g) ==
  Cardinality(UNION { UNION { { <<t, i, j>> : j \in { n \in 1..Len(th[t][i].reqs) :
                                                        th[t][i].reqs[n].tag = g } } :
                              i \in FramesOf(t, "on_complete") } :
                      t \in Threads })

\* how often the callback of tag g has been enqueued or invoked
Scheduled(g) == InQueue(g) + InDrain(g) + cq.posted[g]

\* the send ops, and the recv ops, that unlock() has prepared and whose
\* callback has not yet run
SendOps ==
  Cardinality(UNION { { <<t, i>> : i \in { n \in FramesOf(t, "execute_op") :
                                             th[t][n].op.send } } : t \in Threads })
  + transport.send_inflight
  + Cardinality({ t \in Threads : th[t] # <<>> /\ Top(t).k = "done_send" })

RecvOps ==
  Cardinality(UNION { { <<t, i>> : i \in { n \in FramesOf(t, "execute_op") :
                                             th[t][n].op.recv } } : t \in Threads })
  + transport.recv_inflight
  + Cardinality({ t \in Threads : th[t] # <<>> /\ Top(t).k = "done_recv" })

\* the threads inside the drain of unlock(): calling back, or about to clear
\* call->completing
Drainers ==
  { t \in Threads : FramesOf(t, "on_complete") \cup FramesOf(t, "completing") # {} }

(* C1 --------------------------------------------------------------------- *)

\* C1: the callback of an accepted batch is enqueued and invoked at most once,
\* it is scheduled exactly when the group's complete_mask equals its need_mask,
\* and no op that is still pending belongs to a group whose callback is scheduled
C1_CallbackOnceWhenComplete ==
  /\ \A g \in Tags : Scheduled(g) <= 1
  /\ \A m \in IoreqOps :
       call.masters[m].tag # 0 =>
         ((Scheduled(call.masters[m].tag) = 1)
            <=> (call.masters[m].complete_mask = call.masters[m].need_mask))
  /\ \A op \in IoreqOps :
       call.request_set[op] \in IoreqOps =>
         Scheduled(call.masters[call.request_set[op]].tag) = 0

\* a batch of two ops has been called back, after both ops were resolved
C1_Witness ==
  \E m \in IoreqOps :
    /\ Cardinality(call.masters[m].need_mask) = 2
    /\ call.masters[m].complete_mask = call.masters[m].need_mask
    /\ call.masters[m].tag # 0
    /\ cq.posted[call.masters[m].tag] = 1

(* C2 --------------------------------------------------------------------- *)

\* C2: every batch that start_batch accepted gets its completion posted, once
\* the transport has answered every op and every thread has run on
C2_AcceptedBatchCompletes ==
  \A g \in Tags : (user.ret[g] = GRPC_CALL_OK) ~> (cq.posted[g] = 1)

(* C3 --------------------------------------------------------------------- *)

\* when start_ioreq comes to reqs[i], the slot of its op holds a group index:
\* that of a pending batch, or the one this batch has just put there
Busy(c, reqs, i) ==
  \/ c.request_set[reqs[i].op] \in IoreqOps
  \/ /\ c.request_set[reqs[i].op] = REQSET_EMPTY
     /\ \E j \in 1..(i - 1) : reqs[j].op = reqs[i].op

\* the places of reqs whose op cannot be claimed
Offending(c, reqs) ==
  { i \in 1..Len(reqs) : c.request_set[reqs[i].op] # REQSET_EMPTY \/ Busy(c, reqs, i) }

\* the first of them
FirstOffending(c, reqs) ==
  CHOOSE i \in Offending(c, reqs) : \A j \in Offending(c, reqs) : i <= j

\* start_ioreq refuses reqs with err and leaves every slot and every master alone
Refused(c, reqs, err) ==
  With(start_ioreq(c, reqs, "caller", 0), LAMBDA r :
    /\ r.err = err
    /\ r.c.request_set = c.request_set
    /\ r.c.masters = c.masters)

\* C3, as stated: whatever the state of the call, a batch with an op whose slot
\* holds a group index, a duplicate within the batch included, is refused with
\* TOO_MANY_OPERATIONS, and no slot and no master changes
C3_BusyOpRefused ==
  \A reqs \in IoreqLists :
    (\E i \in 1..Len(reqs) : Busy(call, reqs, i))
      => Refused(call, reqs, GRPC_CALL_ERROR_TOO_MANY_OPERATIONS)

\* C3, amended: the first op of the batch that cannot be claimed decides; if its
\* slot holds a group index the batch is refused with TOO_MANY_OPERATIONS, and
\* no slot and no master changes
C3_FirstBusyOpRefused ==
  \A reqs \in IoreqLists :
    (Offending(call, reqs) # {} /\ Busy(call, reqs, FirstOffending(call, reqs)))
      => Refused(call, reqs, GRPC_CALL_ERROR_TOO_MANY_OPERATIONS)

\* the user's second list was refused with TOO_MANY_OPERATIONS while the first
\* is pending, and a list that claims a free slot before it meets the pending op
\* would be refused now
C3_Witness ==
  /\ user.ret[2] = GRPC_CALL_ERROR_TOO_MANY_OPERATIONS
  /\ \E reqs \in IoreqLists :
       /\ Len(reqs) = 2
       /\ call.request_set[reqs[1].op] = REQSET_EMPTY
       /\ reqs[2].op # reqs[1].op
       /\ call.request_set[reqs[2].op] \in IoreqOps

(* C4 --------------------------------------------------------------------- *)

\* C4, as stated: a batch with an op whose slot is DONE is refused with
\* ALREADY_INVOKED and no slot stays claimed; on a client the slots of
\* SEND_TRAILING_METADATA and SEND_STATUS are DONE
C4_DoneOpRefused ==
  /\ \A reqs \in IoreqLists :
       (\E i \in 1..Len(reqs) : call.request_set[reqs[i].op] = REQSET_DONE)
         => Refused(call, reqs, GRPC_CALL_ERROR_ALREADY_INVOKED)
  /\ call.is_client =>
       /\ call.request_set["SEND_TRAILING_METADATA"] = REQSET_DONE
       /\ call.request_set["SEND_STATUS"] = REQSET_DONE

\* C4, amended: the first op of the batch that cannot be claimed decides; if its
\* slot is DONE the batch is refused with ALREADY_INVOKED and no slot stays
\* claimed; a slot that is DONE stays DONE; on a client the slots of
\* SEND_TRAILING_METADATA and SEND_STATUS are DONE
C4_FirstDoneOpRefused ==
  /\ \A reqs \in IoreqLists :
       (Offending(call, reqs) # {} /\ ~Busy(call, reqs, FirstOffending(call, reqs)))
         => Refused(call, reqs, GRPC_CALL_ERROR_ALREADY_INVOKED)
  /\ call.is_client =>
       /\ call.request_set["SEND_TRAILING_METADATA"] = REQSET_DONE
       /\ call.request_set["SEND_STATUS"] = REQSET_DONE

\* on a client, the initial metadata has been sent and its slot is DONE, and
\* the user's second list was refused with ALREADY_INVOKED
C4_Witness ==
  /\ call.is_client
  /\ call.request_set["SEND_INITIAL_METADATA"] = REQSET_DONE
  /\ user.ret[1] = GRPC_CALL_OK
  /\ user.ret[2] = GRPC_CALL_ERROR_ALREADY_INVOKED

(* C5 --------------------------------------------------------------------- *)

C6_OneSendOp ==
  /\ SendOps <= 1
  /\ call.sending <=> (SendOps = 1)

\* a send op is with the transport while another send request waits its turn
C6_Witness ==
  /\ transport.send_inflight = 1
  /\ \E op \in { "SEND_MESSAGE", "SEND_CLOSE" } :
       is_op_live(call, op) /\ op \notin call.last_send_contains

(* C7 --------------------------------------------------------------------- *)

\* C7: at most one recv op is between unlock(), or the creation of a server
\* call, and the end of its call_on_done_recv, and call->receiving is set
\* exactly while there is one
C7_OneRecvOp ==
  /\ RecvOps <= 1
  /\ call.receiving <=> (RecvOps = 1)

\* on a server call, whose first recv op is issued at its creation, a recv op
\* is with the transport while a request of the user waits for a message
C7_Witness ==
  /\ ~call.is_client
  /\ transport.recv_inflight = 1
  /\ call.receiving
  /\ th["recv"] = <<>>
  /\ is_op_live(call, "RECV_MESSAGE")

(* C8 --------------------------------------------------------------------- *)

\* C8: a thread that is calling back does not hold the mutex, at most one
\* thread is in the drain, and call->completing is set exactly while one is
C8_CallbacksOutsideMutex ==
  /\ \A t \in Threads : FramesOf(t, "on_complete") # {} => mu # t
  /\ Cardinality(Drainers) <= 1
  /\ call.completing <=> (Drainers # {})

\* a thread is calling back while a completion of another batch waits in the
\* call for the next drain
C8_Witness ==
  /\ \E t \in Threads : th[t] # <<>> /\ Top(t).k = "on_complete"
  /\ call.completed_requests # <<>>

(* C9 --------------------------------------------------------------------- *)

\* the sources of c that are set
SetSources(c) == { i \in 0..(STATUS_SOURCE_COUNT - 1) : c.status[i].is_set }

\* the code of the set source with the lowest index, or the default of the role
ExpectedFinalStatus(c) ==
  IF SetSources(c) = {}
  THEN (IF c.is_client THEN GRPC_STATUS_UNKNOWN ELSE GRPC_STATUS_OK)
  ELSE c.status[CHOOSE i \in SetSources(c) : \A j \in SetSources(c) : i <= j].code

\* what the sink of RECV_STATUS holds once that code went through its set_value
ExpectedSink(c) ==
  IF c.request_data["RECV_STATUS"] = "set_cancelled_value"
  THEN (IF ExpectedFinalStatus(c) # GRPC_STATUS_OK THEN 1 ELSE 0)
  ELSE ExpectedFinalStatus(c)

\* C9: in the step that finishes RECV_STATUS, the sink gets the code of the set
\* source with the lowest index, or UNKNOWN on a client and OK on a server if
\* no source is set
C9_FinalStatusLowestSource ==
  [][(call.request_set["RECV_STATUS"] \in IoreqOps
        /\ call'.request_set["RECV_STATUS"] = REQSET_DONE)
       => call'.sink.status = ExpectedSink(call')]_vars

\* the sink holds the code the user cancelled with, and the wire brought another
C9_Witness ==
  /\ call.request_set["RECV_STATUS"] = REQSET_DONE
  /\ call.request_data["RECV_STATUS"] = "set_status_value_directly"
  /\ call.status[STATUS_FROM_API_OVERRIDE].is_set
  /\ call.status[STATUS_FROM_WIRE].is_set
  /\ call.status[STATUS_FROM_WIRE].code # call.status[STATUS_FROM_API_OVERRIDE].code
  /\ call.sink.status = call.status[STATUS_FROM_API_OVERRIDE].code

(* C10 -------------------------------------------------------------------- *)

\* C10: once the API_OVERRIDE status is set, no later cancel, by the user, by
\* the alarm or by grpc_call_destroy, changes its code or the final status
C10_FirstCancelWins ==
  [][call.status[STATUS_FROM_API_OVERRIDE].is_set
       => /\ call'.status[STATUS_FROM_API_OVERRIDE].code =
               call.status[STATUS_FROM_API_OVERRIDE].code
          /\ get_final_status(call') = get_final_status(call)]_vars


(* ------------------------------------- the inbound assembler: SpecFraming *)

FramingBatches == { << BatchOp("OP_RECV_MESSAGE") >> }

\* what one receive callback delivers: nothing, a whole message, the start of
\* one, or one of the violations of the framing: more bytes than announced,
\* bytes outside a message, a message longer than the channel allows (a
\* message begun while another is being read comes from the start of one,
\* delivered twice)
FramingRecvs ==
  { <<>>,
    << BeginMessage(MaxMessageLength), Slice(MaxMessageLength) >>,
    << BeginMessage(MaxMessageLength) >>,
    << BeginMessage(MaxMessageLength), Slice(MaxMessageLength + 1) >>,
    << Slice(1) >>,
    << BeginMessage(MaxMessageLength + 1) >> }

\* what a thread does next; after an abort of the process, nothing
FramingStep(t) ==
  \/ StartIoreq(t, FramingBatches, {})
  \/ CancelWithStatus(t, UserCancels)
  \/ ExecuteCancel(t)
  \/ CallOnDoneRecv(t, FramingRecvs, AnyStreamState)
  \/ CallOnDoneRecvViolation(t, FramingRecvs)
  \/ CallOnDoneRecvFailed(t)
  \/ ExecuteOp(t)
  \/ OnComplete(t)
  \/ Completing(t)
  \/ Unref(t)

FramingTransport == \E success \in BOOLEAN : TransportDoneRecv(success)

NextFraming ==
  \/ StartBatch
  \/ Cancel
  \/ FramingTransport
  \/ \E t \in Threads : FramingStep(t)

\* no thread stops of its own accord, and the transport answers every op
FairnessFraming ==
  /\ WF_vars(FramingTransport)
  /\ \A t \in Threads : WF_vars(FramingStep(t))

SpecFraming == Init /\ [][NextFraming]_vars /\ FairnessFraming

(* C11 -------------------------------------------------------------------- *)

\* the threads whose call_on_done_recv has met a framing violation and is
\* cancelling the call
Violators == { t \in Threads : \E i \in FramesOf(t, "done_recv") : i > 1 }

\* C11: a call_on_done_recv that meets a framing violation cancels the call and
\* goes on: it has not aborted, and at the lock() of
\* grpc_call_cancel_with_status it does not wait for a mutex that it holds
C11_FramingViolationReturns ==
  \A t \in Violators : Top(t).k = "cancel_with_status" /\ mu # t

(* C12 -------------------------------------------------------------------- *)

\* a call_on_done_recv has found more bytes than the message announced
Overflow ==
  \E t \in Violators : Top(t).details = "Receiving message overflow"

\* C12: after a message overflow on a client call the inbound queue is flushed
\* and the RECV_MESSAGE that was pending gets its completion
C12_OverflowFailsPendingRecv ==
  \A g \in Tags :
    (/\ Overflow
     /\ call.is_client
     /\ is_op_live(call, "RECV_MESSAGE")
     /\ call.masters[call.request_set["RECV_MESSAGE"]].tag = g)
      ~> (cq.posted[g] = 1 /\ call.incoming_queue = <<>>)

(* ------------------------------------------------ the role table: SpecRoles *)

\* every op of the batch API, and every batch of up to MaxBatchLen of them
AllOps ==
  { BatchOp(o) : o \in BatchOps \ { "OP_SEND_STATUS_FROM_SERVER" } }
  \cup { SendStatusOp(s) : s \in StatusToSend }

AllBatches == SeqsUpTo(AllOps, MaxBatchLen)

\* the user submits any batch; the transport answers every op with success, and
\* the peer closes the stream with its first answer
NextRoles ==
  \/ \E ops \in AllBatches : StartBatchRefused(ops)
  \/ StartBatchEmpty
  \/ StartBatch
  \/ TransportDoneSend(TRUE)
  \/ TransportDoneRecv(TRUE)
  \/ \E t \in Threads :
       \/ StartIoreq(t, AllBatches, {})
       \/ CallOnDoneRecv(t, { <<>> }, { GRPC_STREAM_CLOSED })
       \/ CallOnDoneSend(t)
       \/ ExecuteOp(t)
       \/ OnComplete(t)
       \/ Completing(t)
       \/ Unref(t)

SpecRoles == Init /\ [][NextRoles]_vars

(* C13 -------------------------------------------------------------------- *)

\* the ops of a batch that only a client, and that only a server, may submit
ClientOnly ==
  { "OP_SEND_CLOSE_FROM_CLIENT", "OP_RECV_INITIAL_METADATA", "OP_RECV_STATUS_ON_CLIENT" }

ServerOnly == { "OP_SEND_STATUS_FROM_SERVER" }

\* what the role table says of a batch on a call of the given role
RoleTable(is_client, ops) ==
  IF ~is_client /\ \E i \in 1..Len(ops) : ops[i].op \in ClientOnly
  THEN GRPC_CALL_ERROR_NOT_ON_SERVER
  ELSE IF is_client /\ \E i \in 1..Len(ops) : ops[i].op \in ServerOnly
  THEN GRPC_CALL_ERROR_NOT_ON_CLIENT
  ELSE GRPC_CALL_OK

RoleErrors == { GRPC_CALL_ERROR_NOT_ON_SERVER, GRPC_CALL_ERROR_NOT_ON_CLIENT }

\* C13: the role check of grpc_call_start_batch gives every batch what the role
\* table says, wherever the offending op stands, and the call of
\* grpc_call_start_batch that returns a role error changes nothing of the
\* call, of the transport and of the completion queue
C13_RoleTableEnforced ==
  [][/\ \A ops \in AllBatches :
          batch_rewrite(call.is_client, ops, 1, <<>>).err = RoleTable(call.is_client, ops)
     /\ \A g \in Tags :
          (user.ret'[g] \in RoleErrors /\ user.ret[g] \notin RoleErrors)
            => /\ call' = call /\ cq' = cq /\ transport' = transport
               /\ mu' = mu /\ th' = th
               /\ cq.begun[g] = 0 /\ cq.posted[g] = 0]_vars

\* a server call has accepted and begun one batch and refused the next with
\* NOT_ON_SERVER, without reserving a completion for it
C13_Witness ==
  /\ ~call.is_client
  /\ user.ret[1] = GRPC_CALL_OK /\ cq.begun[1] = 1
  /\ user.ret[2] = GRPC_CALL_ERROR_NOT_ON_SERVER
  /\ cq.begun[2] = 0 /\ cq.posted[2] = 0

(* --------------------------------------------- the deadline: SpecDeadline *)

\* a client call with a deadline or without, or a server call, whose deadline
\* comes with the initial metadata
InitDeadline == InitWith(BOOLEAN, BOOLEAN)

\* what one receive callback delivers: nothing, or metadata with a deadline
DeadlineRecvs == { <<>>, << Metadata(<<>>, TRUE) >> }

\* the user asks for the status and then waits; the peer sends no status
NextDeadline ==
  \/ \E ops \in StatusBatches : StartBatchRefused(ops)
  \/ StartBatch
  \/ AlarmFire
  \/ \E success \in BOOLEAN : TransportDoneRecv(success)
  \/ \E t \in Threads :
       \/ StartIoreq(t, StatusBatches, {})
       \/ CancelWithStatus(t, {})
       \/ ExecuteCancel(t)
       \/ CallOnDoneRecv(t, DeadlineRecvs, AnyStreamState)
       \/ CallOnDoneRecvFailed(t)
       \/ ExecuteOp(t)
       \/ OnComplete(t)
       \/ Completing(t)
       \/ Unref(t)

SpecDeadline == InitDeadline /\ [][NextDeadline]_vars

(* C14 -------------------------------------------------------------------- *)

\* C14: the cancel of an alarm that fired sets the API_OVERRIDE status to
\* DEADLINE_EXCEEDED on a client and to CANCELLED on a server; a RECV_STATUS
\* that is finished after that delivers that code where the batch asked for the
\* status (RECV_STATUS_ON_CLIENT) and "cancelled" where it asked for the close
\* (RECV_CLOSE_ON_SERVER); an alarm whose callback has run does not run again,
\* and its callback drops the reference of the alarm once
C14_AlarmCancelsWithDeadlineExceeded ==
  [][/\ (/\ th["alarm"] # <<>> /\ Top("alarm").k = "cancel_with_status"
         /\ th'["alarm"] # th["alarm"])
          => /\ call'.status[STATUS_FROM_API_OVERRIDE].is_set
             /\ call'.status[STATUS_FROM_API_OVERRIDE].code =
                  (IF call.is_client THEN GRPC_STATUS_DEADLINE_EXCEEDED
                   ELSE GRPC_STATUS_CANCELLED)
     /\ (/\ call.request_set["RECV_STATUS"] \in IoreqOps
         /\ call'.request_set["RECV_STATUS"] = REQSET_DONE
         /\ call'.status[STATUS_FROM_API_OVERRIDE].is_set)
          => call'.sink.status =
               (IF call.request_data["RECV_STATUS"] = "set_cancelled_value"
                THEN 1
                ELSE IF call.is_client THEN GRPC_STATUS_DEADLINE_EXCEEDED
                ELSE GRPC_STATUS_CANCELLED)
     /\ call.alarm = "done" => call'.alarm = "done"
     /\ Cardinality({ i \in FramesOf("alarm", "unref") :
                        th["alarm"][i].reason = "alarm" })
          = (IF th["alarm"] # <<>> THEN 1 ELSE 0)]_vars

\* the alarm of a client has fired and its reference is dropped, and the batch
\* that waited for the status has completed with DEADLINE_EXCEEDED
C14_Witness ==
  /\ call.is_client
  /\ call.alarm = "done" /\ th["alarm"] = <<>>
  /\ call.request_set["RECV_STATUS"] = REQSET_DONE
  /\ call.request_data["RECV_STATUS"] = "set_status_value_directly"
  /\ call.sink.status = GRPC_STATUS_DEADLINE_EXCEEDED
  /\ cq.posted[1] = 1

(* ------------------------------------------ the life of a call: SpecLife *)

\* the batches of a user who sends its metadata and asks for a message
LifeBatches ==
  { << BatchOp("OP_SEND_INITIAL_METADATA") >>, << BatchOp("OP_RECV_MESSAGE") >> }

\* a call of either role, with a deadline or without, that the user destroys
\* at a moment of its choice while sends, receives, completions and the alarm
\* go on
NextLife ==
  \/ StartBatch
  \/ Destroy
  \/ AlarmFire
  \/ \E success \in BOOLEAN : TransportDoneSend(success)
  \/ \E success \in BOOLEAN : TransportDoneRecv(success)
  \/ \E t \in Threads :
       \/ StartIoreq(t, LifeBatches, {})
       \/ DestroyLocked(t)
       \/ CancelWithStatus(t, {})
       \/ ExecuteCancel(t)
       \/ CallOnDoneRecv(t, DeadlineRecvs, AnyStreamState)
       \/ Step(t)

SpecLife == InitDeadline /\ [][NextLife]_vars

(* C15 -------------------------------------------------------------------- *)

\* the frames of kind k of all threads
AllFrames(k) == UNION { { <<t, i>> : i \in FramesOf(t, k) } : t \in Threads }

\* the unref frames of a reason: references that are about to be dropped
Unrefs(reason) ==
  { f \in AllFrames("unref") : th[f[1]][f[2]].reason = reason }

\* the reference of the user, held until the unref of grpc_call_destroy
UserRef ==
  IF ~user.destroyed \/ AllFrames("destroy") # {} \/ Unrefs("destroy") # {}
  THEN 1 ELSE 0

\* the references of send ops: one from unlock() setting call->sending until
\* the unref at the end of call_on_done_send
SendRefs ==
  (IF call.sending THEN 1 ELSE 0)
  + Cardinality(Unrefs("sending")) - Cardinality(AllFrames("done_send"))

\* the references of recv ops, likewise
RecvRefs ==
  (IF call.receiving THEN 1 ELSE 0)
  + Cardinality(Unrefs("receiving")) - Cardinality(AllFrames("done_recv"))

\* the references of completion drains: from call->completing = 1 until the
\* unref at the end of unlock()
CompletingRefs ==
  (IF call.completing THEN 1 ELSE 0)
  + Cardinality(Unrefs("completing")) - Cardinality(AllFrames("completing"))

\* the reference of the alarm: from grpc_alarm_init until the unref at the end
\* of call_alarm
AlarmRefs ==
  (IF call.alarm \in { "armed", "cancelled" } THEN 1 ELSE 0)
  + Cardinality(Unrefs("alarm"))

\* C15: the reference count is the reference of the user, until destroy has
\* dropped it, plus one for every send op, recv op, completion drain and alarm
\* that is outstanding; destroy_call has run exactly when the count is zero,
\* which is after the destroy of the user and with nothing outstanding, and no
\* step is taken on a call that is freed (so it is freed once)
C15_FreedOnceAfterLastReference ==
  /\ [](/\ call.internal_refcount =
             UserRef + SendRefs + RecvRefs + CompletingRefs + AlarmRefs
        /\ call.freed <=> call.internal_refcount = 0
        /\ call.freed =>
             /\ user.destroyed
             /\ \A t \in Threads : th[t] = <<>>
             /\ transport.send_inflight = 0 /\ transport.recv_inflight = 0
             /\ ~call.sending /\ ~call.receiving /\ ~call.completing
             /\ call.alarm \notin { "armed", "cancelled" })
  /\ [][~call.freed]_vars

\* a call that had a deadline and a send and a receive going is freed
C15_Witness ==
  /\ call.freed
  /\ call.alarm = "done"
  /\ transport.sent # <<>>
  /\ cq.posted[1] = 1

(* ------------------------------------------ inbound messages: SpecMessages *)

MessageBatches == { << BatchOp("OP_RECV_MESSAGE") >> }

\* what one receive callback delivers: nothing, one or two whole empty
\* messages, or metadata that carries a status
MessageRecvs ==
  { <<>>, << BeginMessage(0) >>, << BeginMessage(0), BeginMessage(0) >> }
  \cup StatusRecvs

\* a user who asks for messages and may cancel, and a peer that sends messages
\* and a status
NextMessages ==
  \/ StartBatch
  \/ Cancel
  \/ \E success \in BOOLEAN : TransportDoneRecv(success)
  \/ \E t \in Threads :
       \/ StartIoreq(t, MessageBatches, {})
       \/ CancelWithStatus(t, UserCancels)
       \/ ExecuteCancel(t)
       \/ CallOnDoneRecv(t, MessageRecvs, AnyStreamState)
       \/ CallOnDoneRecvFailed(t)
       \/ ExecuteOp(t)
       \/ OnComplete(t)
       \/ Completing(t)
       \/ Unref(t)

SpecMessages == Init /\ [][NextMessages]_vars

(* C16 -------------------------------------------------------------------- *)

\* the messages handed over to RECV_MESSAGE ioreqs, and those in the queue
Delivered == { call.hist_delivered[i] : i \in 1..Len(call.hist_delivered) }

Queued == { call.incoming_queue[i].id : i \in 1..Len(call.incoming_queue) }

\* C16: every message that was put on the inbound queue is in the queue, or was
\* handed over to a RECV_MESSAGE ioreq, or was flushed, and only one of the
\* three; no message is handed over twice; and one step hands over at most one
\* message, to the RECV_MESSAGE ioreq it completes
C16_MessagesConserved ==
  /\ [](/\ call.hist_pushed =
             Len(call.hist_delivered) + Cardinality(call.hist_flushed)
             + Len(call.incoming_queue)
        /\ Cardinality(Delivered) = Len(call.hist_delivered)
        /\ Cardinality(Queued) = Len(call.incoming_queue)
        /\ Delivered \cap call.hist_flushed = {}
        /\ Queued \cap (Delivered \cup call.hist_flushed) = {}
        /\ Delivered \cup call.hist_flushed \cup Queued = 1..call.hist_pushed)
  /\ [][/\ Len(call'.hist_delivered) <= Len(call.hist_delivered) + 1
        /\ Len(call'.hist_delivered) = Len(call.hist_delivered) + 1
             => /\ call'.sink.recv_message.id
                     = call'.hist_delivered[Len(call'.hist_delivered)]
                /\ ~is_op_live(call', "RECV_MESSAGE")]_vars

\* of two messages that were queued one was handed over to the first batch,
\* which has completed, and the other was flushed
C16_Witness ==
  /\ call.hist_pushed = 2
  /\ Len(call.hist_delivered) = 1
  /\ Cardinality(call.hist_flushed) = 1
  /\ cq.posted[1] = 1

(* ------------------------------------------------ ioreq slots: SpecSlots *)

\* grpc_call_cancel
PlainCancel == { [status |-> GRPC_STATUS_CANCELLED, details |-> "Cancelled"] }

\* the lists the user submits: every list of up to MaxBatchLen of these ioreqs,
\* lists that name an op twice included
SlotLists ==
  SeqsUpTo({ Ioreq(o) : o \in { "SEND_INITIAL_METADATA", "SEND_MESSAGE",
                                 "RECV_MESSAGE" } }, MaxBatchLen)

\* direct ioreq submissions, accepted and refused, with transport completions
\* that succeed and fail, and cancels by the user
NextSlots ==
  \/ StartIoreqDirect
  \/ Cancel
  \/ \E success \in BOOLEAN : TransportDoneSend(success)
  \/ \E success \in BOOLEAN : TransportDoneRecv(success)
  \/ \E t \in Threads :
       \/ StartIoreq(t, {}, SlotLists)
       \/ CancelWithStatus(t, PlainCancel)
       \/ ExecuteCancel(t)
       \/ CallOnDoneRecv(t, { <<>> }, AnyStreamState)
       \/ Step(t)

SpecSlots == Init /\ [][NextSlots]_vars

(* C17 -------------------------------------------------------------------- *)

\* thread t finishes the critical section of a start_ioreq in this step
StartIoreqStep(t) ==
  /\ th[t] # <<>> /\ Top(t).k = "start_ioreq"
  /\ th'[t] # th[t]

\* C17: a slot that is EMPTY changes only in a start_ioreq, which gives it a
\* group index (or DONE, if the group completes before start_ioreq returns); a
\* slot with a group index changes to DONE, or, for SEND_MESSAGE and
\* RECV_MESSAGE only, to EMPTY; a slot that is DONE does not change; and a
\* start_ioreq that is refused leaves every slot as it was
C17_SlotLifeCycle ==
  [][/\ \A op \in IoreqOps :
          \/ call'.request_set[op] = call.request_set[op]
          \/ /\ call.request_set[op] = REQSET_EMPTY
             /\ call'.request_set[op] \in IoreqOps \cup { REQSET_DONE }
             /\ \E t \in Threads : StartIoreqStep(t)
          \/ /\ call.request_set[op] \in IoreqOps
             /\ call'.request_set[op] = REQSET_DONE
          \/ /\ call.request_set[op] \in IoreqOps
             /\ call'.request_set[op] = REQSET_EMPTY
             /\ op \in { "SEND_MESSAGE", "RECV_MESSAGE" }
     /\ \A t \in Threads :
          (StartIoreqStep(t) /\ user'.ret[Top(t).tag] # GRPC_CALL_OK)
            => call'.request_set = call.request_set]_vars

\* the first list was accepted and has completed: its SEND_MESSAGE slot is
\* EMPTY again and its SEND_INITIAL_METADATA slot is DONE; the second list was
\* refused and has left them so
C17_Witness ==
  /\ user.ret[1] = GRPC_CALL_OK /\ cq.posted[1] = 1
  /\ call.request_set["SEND_MESSAGE"] = REQSET_EMPTY
  /\ call.request_set["SEND_INITIAL_METADATA"] = REQSET_DONE
  /\ transport.sent # <<>>
  /\ user.ret[2] \in { GRPC_CALL_ERROR_TOO_MANY_OPERATIONS,
                       GRPC_CALL_ERROR_ALREADY_INVOKED }

(* C18 -------------------------------------------------------------------- *)

\* C18: every call of cancel_with_status can return: the thread that makes it
\* does not hold the call mutex that the call is about to take, and the
\* process has not aborted in it
C18_CancelReturnsFromAnyThread ==
  \A t \in Threads :
    (th[t] # <<>> /\ Top(t).k \in { "cancel_with_status", "abort" }) => mu # t

(* C19 -------------------------------------------------------------------- *)

\* thread t runs call_on_done_send, from lock() to unlock(), in this step
DoneSendStep(t) ==
  /\ th[t] # <<>> /\ Top(t).k = "done_send"
  /\ th'[t] # th[t]

\* C19: an ioreq whose bit is in last_send_contains while the send op is in
\* flight is finished only by call_on_done_send, and with the result of the
\* transport: a failed send makes the status of its group GRPC_OP_ERROR
\* (SEND_CLOSE excepted) and a send that went well leaves that status alone
C19_InFlightSendFinishedBySendCallback ==
  [][\A op \in call.last_send_contains :
       (call.sending /\ is_op_live(call, op) /\ ~is_op_live(call', op))
         => \E t \in Threads :
              /\ DoneSendStep(t)
              /\ call'.masters[call.request_set[op]].status =
                   (IF Top(t).success \/ op = "SEND_CLOSE"
                    THEN call.masters[call.request_set[op]].status
                    ELSE GRPC_OP_ERROR)]_vars

(* -------------------------------- batches during a drain: SpecDrain *)

\* grpc_call_start_batch with a tag the user has used before: tags are the
\* user's own pointers, and nothing keeps it from using one again
StartBatchAgain ==
  /\ Idle("user") /\ ~user.destroyed
  /\ user.calls = MaxBatches
  /\ cq.begun[MaxBatches] <= MaxRestarts
  /\ cq' = [cq EXCEPT !.begun[MaxBatches] = @ + 1]
  /\ user' = [user EXCEPT !.ret[MaxBatches] = "running"]
  /\ th' = [th EXCEPT !["user"] =
              << [k |-> "start_ioreq", api |-> "batch", tag |-> MaxBatches] >>]
  /\ UNCHANGED <<call, mu, transport>>

\* the peer closes the stream without sending anything, and the user keeps
\* asking for messages, while the thread that drains completions takes its time
NextDrain ==
  \/ StartBatch
  \/ StartBatchAgain
  \/ TransportDoneRecv(TRUE)
  \/ \E t \in Threads :
       \/ StartIoreq(t, MessageBatches, {})
       \/ CallOnDoneRecv(t, { <<>> }, { GRPC_STREAM_CLOSED })
       \/ ExecuteOp(t)
       \/ OnComplete(t)
       \/ Completing(t)
       \/ Unref(t)

SpecDrain == Init /\ [][NextDrain]_vars

(* C20 -------------------------------------------------------------------- *)

\* C20: call->completed_requests, an array of GRPC_IOREQ_OP_COUNT entries,
\* never holds more than GRPC_IOREQ_OP_COUNT completions
C20_CompletedRequestsFit ==
  Len(call.completed_requests) <= GRPC_IOREQ_OP_COUNT

(* ------------------------------------------- late send ioreqs: SpecWrites *)

\* the lists the user submits: every list of up to MaxBatchLen of the five send
\* ioreqs and RECV_MESSAGE, whose failure closes the writes as well
WriteLists ==
  SeqsUpTo({ Ioreq(o) : o \in { "SEND_INITIAL_METADATA", "SEND_MESSAGE",
                                 "SEND_TRAILING_METADATA", "SEND_CLOSE",
                                 "RECV_MESSAGE" } }
           \cup { [op |-> "SEND_STATUS", data |-> d] : d \in StatusToSend },
           MaxBatchLen)

\* direct submissions of ioreqs, sends that succeed and fail, and receives
\* that fail
NextWrites ==
  \/ StartIoreqDirect
  \/ \E success \in BOOLEAN : TransportDoneSend(success)
  \/ TransportDoneRecv(FALSE)
  \/ \E t \in Threads :
       \/ StartIoreq(t, {}, WriteLists)
       \/ CallOnDoneSend(t)
       \/ CallOnDoneRecvFailed(t)
       \/ ExecuteOp(t)
       \/ OnComplete(t)
       \/ Completing(t)
       \/ Unref(t)

SpecWrites == Init /\ [][NextWrites]_vars

(* C21 -------------------------------------------------------------------- *)

\* the master slots of the group that the start_ioreq of thread t sets up in
\* this step: the one that takes the tag of the call
NewGroup(t) ==
  { g \in IoreqOps : /\ call'.masters[g].tag = Top(t).tag
                     /\ call.masters[g].tag # Top(t).tag }

\* op of the group of master g is finished by the step, with an error of the
\* group if `failed`
FinishedAtOnce(g, op, failed) ==
  /\ op \in call'.masters[g].complete_mask
  /\ failed => call'.masters[g].status = GRPC_OP_ERROR

FinishesGroup(op, status) ==
  LET g == call.request_set[op]
      r == finish_live_ioreq_op(call, op, status)
      m == r.masters[g]
  IN /\ (m.status = GRPC_OP_OK)
          <=> (call.masters[g].status = GRPC_OP_OK /\ status = GRPC_OP_OK)
     /\ m.complete_mask = m.need_mask =>
          /\ \A i \in IoreqOps :
               IF call.request_set[i] # g
               THEN r.request_set[i] = call.request_set[i]
               ELSE IF i \in { "SEND_MESSAGE", "RECV_MESSAGE" }
               THEN IF m.status = GRPC_OP_OK
                    THEN r.request_set[i] = REQSET_EMPTY
                    ELSE /\ r.request_set[i] = REQSET_DONE
                         /\ r.write_state = WRITE_STATE_WRITE_CLOSED
               ELSE r.request_set[i] = REQSET_DONE
          /\ r.completed_requests =
               Append(call.completed_requests,
                      [status |-> m.status, on_complete |-> m.on_complete,
                       tag |-> m.tag])
     /\ m.complete_mask # m.need_mask =>
          /\ r.request_set = call.request_set
          /\ r.completed_requests = call.completed_requests

\* C22: in every state the call reaches, and for every op that is live in it
\* and either result: finishing the op keeps the status of its group OK
\* exactly if it was OK and the result is (a group starts with OK, so its
\* status is OK iff every op finished with OK); and if that finalizes the
\* group, SEND_MESSAGE and RECV_MESSAGE slots return to EMPTY iff the status
\* is OK and else become DONE with the write state WRITE_CLOSED, and every
\* other slot of the group becomes DONE
C22_GroupStatusAndSlots ==
  /\ \A op \in IoreqOps, status \in { GRPC_OP_OK, GRPC_OP_ERROR } :
       is_op_live(call, op) => FinishesGroup(op, status)
  /\ \A g \in IoreqOps :
       (call.request_set[g] = g /\ call.masters[g].complete_mask = {})
         => call.masters[g].status = GRPC_OP_OK

\* a group of SEND_MESSAGE and RECV_MESSAGE has finalized with an error after
\* one of the two had finished with OK: both slots are DONE and the writes are
\* closed
C22_Witness ==
  /\ call.masters["SEND_MESSAGE"].need_mask = { "SEND_MESSAGE", "RECV_MESSAGE" }
  /\ call.masters["SEND_MESSAGE"].complete_mask = { "SEND_MESSAGE", "RECV_MESSAGE" }
  /\ call.masters["SEND_MESSAGE"].status = GRPC_OP_ERROR
  /\ call.request_set["SEND_MESSAGE"] = REQSET_DONE
  /\ call.request_set["RECV_MESSAGE"] = REQSET_DONE
  /\ call.write_state = WRITE_STATE_WRITE_CLOSED
  /\ Len(transport.sent) = 2
  /\ cq.posted[call.masters["SEND_MESSAGE"].tag] = 1

(* ------------------------------------------- receive ioreqs: SpecReads *)

\* the batches the user submits: up to MaxBatchLen of the receive ops and of
\* the send of the initial metadata, which takes a server out of the write
\* state INITIAL
ReadBatches ==
  SeqsUpTo({ BatchOp(o) : o \in { "OP_RECV_INITIAL_METADATA", "OP_RECV_MESSAGE",
                                  "OP_RECV_STATUS_ON_CLIENT",
                                  "OP_RECV_CLOSE_ON_SERVER",
                                  "OP_SEND_INITIAL_METADATA" } }, MaxBatchLen)

\* what one receive callback delivers: nothing, one or two whole empty
\* messages, or metadata without elements
ReadRecvs ==
  { <<>>, << BeginMessage(0) >>, << BeginMessage(0), BeginMessage(0) >>,
    << Metadata(<<>>, FALSE) >> }

NextReads ==
  \/ \E ops \in ReadBatches : StartBatchRefused(ops)
  \/ StartBatch
  \/ TransportDoneSend(TRUE)
  \/ \E success \in BOOLEAN : TransportDoneRecv(success)
  \/ \E t \in Threads :
       \/ StartIoreq(t, ReadBatches, {})
       \/ CallOnDoneSend(t)
       \/ CallOnDoneRecv(t, ReadRecvs, AnyStreamState)
       \/ CallOnDoneRecvFailed(t)
       \/ ExecuteOp(t)
       \/ OnComplete(t)
       \/ Completing(t)
       \/ Unref(t)

SpecReads == Init /\ [][NextReads]_vars

(* C23 -------------------------------------------------------------------- *)

\* a step that ends in finish_read_ops: an accepted start_ioreq, or
\* call_on_done_recv with success
ReadOpsStep ==
  \E t \in Threads :
    \/ StartIoreqStep(t) /\ user'.ret[Top(t).tag] = GRPC_CALL_OK
    \/ /\ th[t] # <<>> /\ Top(t).k = "done_recv" /\ Top(t).success
       /\ th'[t] # th[t]

\* op is finished in this step: it was live, or the step submits it, and it is
\* not live after the step
FinishedInStep(op) ==
  /\ ~is_op_live(call', op)
  /\ \/ is_op_live(call, op)
     \/ \E t \in Threads :
          /\ StartIoreqStep(t)
          /\ \E g \in NewGroup(t) : op \in call'.masters[g].need_mask

\* C23: in a step that ends in finish_read_ops, RECV_CLOSE is finished exactly
\* if the stream is closed and the queue is left empty; RECV_MESSAGE exactly if
\* one message is popped for it, or the read side is closed and the queue is
\* empty, and then nothing is delivered; RECV_STATUS, RECV_STATUS_DETAILS and
\* RECV_TRAILING_METADATA exactly if the read side is closed, whatever is in
\* the queue; RECV_INITIAL_METADATA exactly if the initial metadata has been
\* received; an op that is finished is one that was live or is submitted
C23_ReadOpsFinishedWhenSatisfied ==
  [][ReadOpsStep =>
       LET Submitted(op) == is_op_live(call', op) \/ FinishedInStep(op)
           closed == call'.read_state >= READ_STATE_READ_CLOSED
           popped == Len(call'.hist_delivered) = Len(call.hist_delivered) + 1
       IN /\ Submitted("RECV_CLOSE") =>
               (FinishedInStep("RECV_CLOSE")
                  <=> /\ call'.read_state = READ_STATE_STREAM_CLOSED
                      /\ call'.incoming_queue = <<>>)
          /\ Submitted("RECV_MESSAGE") =>
               /\ FinishedInStep("RECV_MESSAGE")
                    <=> (popped \/ (closed /\ call'.incoming_queue = <<>>))
               /\ (FinishedInStep("RECV_MESSAGE") /\ ~popped)
                    => call'.sink.recv_message = NoMessage
               /\ popped => call'.sink.recv_message.id
                               = call'.hist_delivered[Len(call'.hist_delivered)]
          /\ ~Submitted("RECV_MESSAGE") => ~popped
          /\ \A op \in { "RECV_STATUS", "RECV_STATUS_DETAILS",
                         "RECV_TRAILING_METADATA" } :
               Submitted(op) => (FinishedInStep(op) <=> closed)
          /\ Submitted("RECV_INITIAL_METADATA") =>
               (FinishedInStep("RECV_INITIAL_METADATA")
                  <=> call'.read_state >= READ_STATE_GOT_INITIAL_METADATA)]_vars

\* with the stream closed and a message still in the queue, RECV_STATUS is
\* finished and the RECV_CLOSE of the same batch is not
C23_Witness ==
  /\ call.read_state = READ_STATE_STREAM_CLOSED
  /\ call.incoming_queue # <<>>
  /\ call.request_set["RECV_STATUS"] = "RECV_STATUS"
  /\ call.request_set["RECV_CLOSE"] = "RECV_STATUS"
  /\ ~is_op_live(call, "RECV_STATUS")
  /\ is_op_live(call, "RECV_CLOSE")


(* ----------------------------------------- the final details: SpecDetails *)

\* what one receive callback delivers: nothing, metadata with a grpc-message
\* alone, or metadata with a grpc-status and a grpc-message
DetailsRecvs ==
  { <<>>,
    << Metadata(<< MessageElem >>, FALSE) >>,
    << Metadata(<< StatusElem([value |-> "1", bytes |-> << "1" >>]), MessageElem >>,
                FALSE) >> }

NextDetails ==
  \/ StartBatch
  \/ Cancel
  \/ \E success \in BOOLEAN : TransportDoneRecv(success)
  \/ \E t \in Threads :
       \/ StartIoreq(t, CancelBatches, {})
       \/ CancelWithStatus(t, UserCancels)
       \/ ExecuteCancel(t)
       \/ CallOnDoneRecv(t, DetailsRecvs, AnyStreamState)
       \/ CallOnDoneRecvFailed(t)
       \/ ExecuteOp(t)
       \/ OnComplete(t)
       \/ Completing(t)
       \/ Unref(t)

SpecDetails == InitCancel /\ [][NextDetails]_vars

(* C24 -------------------------------------------------------------------- *)

\* the sources of c that hold a detail string
DetailSources(c) ==
  { i \in 0..(STATUS_SOURCE_COUNT - 1) : c.status[i].details # NoDetails }

\* the step finishes RECV_STATUS_DETAILS
DetailsStep ==
  /\ call.request_set["RECV_STATUS_DETAILS"] \in IoreqOps
  /\ call'.request_set["RECV_STATUS_DETAILS"] = REQSET_DONE

\* C24 as stated: the sink gets the detail string of the first source, in the
\* order API_OVERRIDE, CORE, WIRE, that holds a detail string, and the empty
\* string if no source holds one
C24_DetailsOfFirstSourceWithDetails ==
  [][DetailsStep =>
       call'.sink.details =
         IF DetailSources(call') = {} THEN ""
         ELSE call'.status[CHOOSE i \in DetailSources(call') :
                             \A j \in DetailSources(call') : i <= j].details]_vars

\* C24 as the code has it: the sink gets the detail string of the first source
\* whose code is set, the one get_final_status takes the code from, and the
\* empty string if that source holds no detail string or no source is set
C24_DetailsOfFirstSetSource ==
  [][DetailsStep =>
       call'.sink.details =
         IF SetSources(call') = {} THEN ""
         ELSE LET i == CHOOSE i \in SetSources(call') :
                         \A j \in SetSources(call') : i <= j
              IN IF call'.status[i].details = NoDetails THEN ""
                 ELSE call'.status[i].details]_vars

\* the user cancelled without a description and the wire brought a status with
\* a grpc-message: the sink holds the empty string
C24_Witness ==
  /\ call.request_set["RECV_STATUS_DETAILS"] = REQSET_DONE
  /\ call.status[STATUS_FROM_API_OVERRIDE].is_set
  /\ call.status[STATUS_FROM_API_OVERRIDE].details = NoDetails
  /\ call.status[STATUS_FROM_WIRE].is_set
  /\ call.status[STATUS_FROM_WIRE].details = "wire details"
  /\ call.sink.details = ""

(* C25 -------------------------------------------------------------------- *)

\* the frames at which a thread takes the mutex
LockKinds ==
  { "start_ioreq", "cancel_with_status", "destroy", "done_send", "done_recv",
    "completing" }

\* the step is a critical section of t that ends in unlock()
UnlockStep(t) ==
  /\ th[t] # <<>>
  /\ Top(t).k \in LockKinds
  /\ mu = NoThread /\ mu' = NoThread
  /\ th'[t] # th[t]

\* call->receiving when unlock() reads it: call_on_done_recv has cleared it
ReceivingAtUnlock(t) == Top(t).k # "done_recv" /\ call.receiving

\* a recv ioreq other than RECV_CLOSE is live at the end of the step
RecvOpLive ==
  \E op \in { "RECV_INITIAL_METADATA", "RECV_MESSAGE", "RECV_STATUS",
               "RECV_STATUS_DETAILS", "RECV_TRAILING_METADATA" } :
    is_op_live(call', op)

\* the write state is INITIAL when unlock() reads it: it was before the step,
\* and if it is not after, it is the send path of this unlock() that left it,
\* with the initial metadata
InitialAtUnlock ==
  /\ call.write_state = WRITE_STATE_INITIAL
  /\ \/ call'.write_state = WRITE_STATE_INITIAL
     \/ "SEND_INITIAL_METADATA" \in call'.last_send_contains

\* a server that has written nothing and whose stream is not closed
ServerAwaitsRequest ==
  /\ ~call.is_client
  /\ InitialAtUnlock
  /\ call'.read_state # READ_STATE_STREAM_CLOSED

\* C25 as stated: unlock, with receiving false, requests a recv transport op
\* iff a recv ioreq, RECV_CLOSE included, is live, or the call is a server in
\* write state INITIAL whose read state is not STREAM_CLOSED
C25_RecvRequestedIffAnyRecvLive ==
  [][\A t \in Threads :
       (UnlockStep(t) /\ ~ReceivingAtUnlock(t)) =>
         (call'.receiving <=>
            \/ RecvOpLive
            \/ is_op_live(call', "RECV_CLOSE")
            \/ ServerAwaitsRequest)]_vars

\* C25 as the code has it: a live RECV_CLOSE asks for more data only while the
\* inbound queue is empty
C25_RecvRequestedIffDataNeeded ==
  [][\A t \in Threads :
       (UnlockStep(t) /\ ~ReceivingAtUnlock(t)) =>
         (call'.receiving <=>
            \/ RecvOpLive
            \/ (is_op_live(call', "RECV_CLOSE") /\ call'.incoming_queue = <<>>)
            \/ ServerAwaitsRequest)]_vars

\* a server that has sent its initial metadata, with RECV_CLOSE live and a
\* message in the queue: no recv op was requested
C25_Witness ==
  /\ ~call.is_client
  /\ call.write_state = WRITE_STATE_STARTED
  /\ call.read_state # READ_STATE_STREAM_CLOSED
  /\ is_op_live(call, "RECV_CLOSE")
  /\ call.incoming_queue # <<>>
  /\ ~call.receiving
  /\ transport.recv_inflight = 0
  /\ \A t \in Threads : Idle(t)

(* C26 -------------------------------------------------------------------- *)

\* the send ops that unlock() has prepared and not yet passed to execute_op
PendingSends ==
  { th[x[1]][x[2]].op : x \in { y \in AllFrames("execute_op") : th[y[1]][y[2]].op.send } }

\* every send op handed to the transport so far, in order: those that went
\* down the stack and the one that is about to
Handed ==
  transport.sent \o
    (IF PendingSends = {} THEN <<>>
     ELSE LET op == CHOOSE o \in PendingSends : TRUE
          IN << [frames |-> op.frames, is_last_send |-> op.is_last_send] >>)

RECURSIVE Flatten(_)
\* the stream ops of a sequence of send ops, one after the other
Flatten(ops) ==
  IF ops = <<>> THEN <<>> ELSE Head(ops).frames \o Flatten(Tail(ops))

IsInitialMetadata(f) == f.type = "METADATA" /\ ~f.trailing

IsTrailingMetadata(f) == f.type = "METADATA" /\ f.trailing

\* initial metadata first and once, then whole messages, then at most the
\* trailing metadata of a server
StreamOrdered(f) ==
  f # <<>> =>
    /\ IsInitialMetadata(f[1])
    /\ \A i \in 2..Len(f) : ~IsInitialMetadata(f[i])
    /\ \A i \in 1..Len(f) :
         /\ IsTrailingMetadata(f[i]) => (i = Len(f) /\ ~call.is_client)
         /\ f[i].type = "BEGIN_MESSAGE" => (i < Len(f) /\ f[i + 1].type = "SLICE")
         /\ f[i].type = "SLICE" => (i > 1 /\ f[i - 1].type = "BEGIN_MESSAGE")

\* the close is on one op, the last one, and a server's close ends with the
\* trailing metadata, which no other op carries
CloseLast(ops) ==
  \A i \in 1..Len(ops) :
    /\ ops[i].is_last_send => i = Len(ops)
    /\ (ops[i].is_last_send /\ ~call.is_client)
         => (ops[i].frames # <<>> /\ IsTrailingMetadata(ops[i].frames[Len(ops[i].frames)]))
    /\ ~ops[i].is_last_send => \A j \in 1..Len(ops[i].frames) :
                                 ~IsTrailingMetadata(ops[i].frames[j])

SendOrderInv ==
  /\ Cardinality(PendingSends) <= 1
  /\ StreamOrdered(Flatten(Handed))
  /\ CloseLast(Handed)
  /\ call.write_state = WRITE_STATE_INITIAL => Handed = <<>>
  /\ Handed # <<>> => (Handed[1].frames # <<>> /\ IsInitialMetadata(Handed[1].frames[1]))

\* the op that this step hands over, if it hands one over
SendOrderStep ==
  /\ call.write_state = WRITE_STATE_WRITE_CLOSED => Handed' = Handed
  /\ Handed' # Handed =>
       /\ Handed' = Handed \o << Handed'[Len(Handed')] >>
       /\ (Handed'[Len(Handed')].is_last_send /\ ~call.is_client) =>
            LET f == Handed'[Len(Handed')].frames
            IN f[Len(f)].status = call'.request_data["SEND_STATUS"].code
       /\ call.write_state = WRITE_STATE_INITIAL =>
            is_op_live(call', "SEND_INITIAL_METADATA")

\* C26: what is handed to the transport is in stream order: the initial
\* metadata first and once, then messages, then the close, on a server with
\* the trailing metadata that carries the status; nothing is handed over in
\* write state INITIAL without a live SEND_INITIAL_METADATA, is_last_send is on
\* at most one op, and nothing is handed over once the write state is
\* WRITE_CLOSED
C26_SendsInStreamOrder ==
  []SendOrderInv /\ [][SendOrderStep]_vars

\* a server has handed over the initial metadata with a message, and then the
\* close with the status INVALID_ARGUMENT
C26_Witness ==
  /\ ~call.is_client
  /\ Len(transport.sent) = 2
  /\ Len(transport.sent[1].frames) = 3
  /\ ~transport.sent[1].is_last_send
  /\ Len(transport.sent[2].frames) = 1
  /\ transport.sent[2].is_last_send
  /\ transport.sent[2].frames[1].status = GRPC_STATUS_INVALID_ARGUMENT
  /\ call.write_state = WRITE_STATE_WRITE_CLOSED

(* C27 -------------------------------------------------------------------- *)

\* call->sending when unlock() reads it: call_on_done_send has cleared it
SendingAtUnlock(t) == Top(t).k # "done_send" /\ call.sending

\* the write state is STARTED when unlock() reads it: it was before the step,
\* and if it is not after, it is the send path of this unlock() that closed it
StartedAtUnlock ==
  /\ call.write_state = WRITE_STATE_STARTED
  /\ \/ call'.write_state = WRITE_STATE_STARTED
     \/ "SEND_CLOSE" \in call'.last_send_contains

\* the send ioreqs that one pass of the send path has to take: the initial
\* metadata in INITIAL, and with it or in STARTED the message and the close
Permitted ==
  LET im == InitialAtUnlock /\ is_op_live(call', "SEND_INITIAL_METADATA")
      started == StartedAtUnlock \/ im
  IN (IF im THEN { "SEND_INITIAL_METADATA" } ELSE {})
     \cup { op \in { "SEND_MESSAGE", "SEND_CLOSE" } : started /\ is_op_live(call', op) }

\* the frames that go with a set of send ioreqs
CarriesExactly(op, ioreqs) ==
  /\ ("SEND_INITIAL_METADATA" \in ioreqs)
       <=> \E i \in 1..Len(op.frames) : IsInitialMetadata(op.frames[i])
  /\ ("SEND_MESSAGE" \in ioreqs)
       <=> \E i \in 1..Len(op.frames) : op.frames[i].type = "BEGIN_MESSAGE"
  /\ ("SEND_CLOSE" \in ioreqs) <=> op.is_last_send

\* C27: one pass of the send path combines every live send ioreq the write
\* state permits into at most one transport op: last_send_contains is exactly
\* that set, the op carries exactly their content, the write state is
\* WRITE_CLOSED after a close (from INITIAL too) and STARTED after the initial
\* metadata without one, and a send is started iff the set is not empty
C27_OnePassCombinesLiveSends ==
  [][\A t \in Threads :
       (UnlockStep(t) /\ ~SendingAtUnlock(t)) =>
         /\ call'.last_send_contains = Permitted
         /\ call'.sending <=> Permitted # {}
         /\ Permitted = {} => Handed' = Handed
         /\ Permitted # {} =>
              /\ Len(Handed') = Len(Handed) + 1
              /\ CarriesExactly(Handed'[Len(Handed')], Permitted)
              /\ call'.write_state =
                   IF "SEND_CLOSE" \in Permitted THEN WRITE_STATE_WRITE_CLOSED
                   ELSE WRITE_STATE_STARTED]_vars

\* one op with the initial metadata, a message and the close is in flight, the
\* only op so far, and the write state is WRITE_CLOSED
C27_Witness ==
  /\ call.sending
  /\ call.last_send_contains = { "SEND_INITIAL_METADATA", "SEND_MESSAGE", "SEND_CLOSE" }
  /\ call.write_state = WRITE_STATE_WRITE_CLOSED
  /\ Len(transport.sent) = 1
  /\ transport.sent[1].is_last_send
  /\ Len(transport.sent[1].frames) >= 3

(* C28 -------------------------------------------------------------------- *)

\* the codes and the detail strings that the status setters are tried with
SomeCodes ==
  { GRPC_STATUS_OK, GRPC_STATUS_CANCELLED, GRPC_STATUS_UNKNOWN,
    GRPC_STATUS_INVALID_ARGUMENT, GRPC_STATUS_DEADLINE_EXCEEDED }

SomeDetails == { NoDetails, "Cancelled", "wire details" }

StatusSources == 0..(STATUS_SOURCE_COUNT - 1)

\* the codes that make a call of this role drop its queued messages
Flushes(code) ==
  IF call.is_client THEN code = GRPC_STATUS_CANCELLED ELSE code # GRPC_STATUS_OK

\* set_status_code on the call as it is: the queue is emptied or left alone by
\* the role and the code alone, and only the record of the source is written
CodeSetterFrame ==
  \A source \in StatusSources, code \in SomeCodes :
    LET r == set_status_code(call, source, code)
    IN /\ r.incoming_queue = IF Flushes(code) THEN <<>> ELSE call.incoming_queue
       /\ r.status = [call.status EXCEPT ![source].is_set = TRUE, ![source].code = code]
       /\ \A f \in DOMAIN call \ { "status", "incoming_queue", "hist_flushed" } :
            r[f] = call[f]

\* set_status_details on the call as it is: only the detail string is written
DetailsSetterFrame ==
  \A source \in StatusSources, details \in SomeDetails :
    LET r == set_status_details(call, source, details)
    IN /\ r.incoming_queue = call.incoming_queue
       /\ \A s \in StatusSources : /\ r.status[s].is_set = call.status[s].is_set
                                   /\ r.status[s].code = call.status[s].code
       /\ r.status[source].details = details
       /\ \A f \in DOMAIN call \ { "status" } : r[f] = call[f]

\* the critical section of grpc_call_cancel_with_status, which calls both
CancelStep(t) == UnlockStep(t) /\ Top(t).k = "cancel_with_status"

\* C28: set_status_code, for every source, empties the inbound queue iff the
\* call is a client and the code is CANCELLED, or a server and the code is not
\* OK, and leaves the queue as it is otherwise; set_status_details changes
\* neither the queue nor an is_set flag
C28_StatusSettersFrame ==
  /\ [](CodeSetterFrame /\ DetailsSetterFrame)
  /\ [][\A t \in Threads :
          CancelStep(t) =>
            /\ call'.status[STATUS_FROM_API_OVERRIDE].is_set
            /\ call'.incoming_queue =
                 IF Flushes(call'.status[STATUS_FROM_API_OVERRIDE].code)
                 THEN <<>> ELSE call.incoming_queue
            /\ \A s \in StatusSources \ { STATUS_FROM_API_OVERRIDE } :
                 call'.status[s] = call.status[s]]_vars

\* a client was cancelled with INVALID_ARGUMENT and kept its queued message
C28_Witness ==
  /\ call.is_client
  /\ call.status[STATUS_FROM_API_OVERRIDE].is_set
  /\ call.status[STATUS_FROM_API_OVERRIDE].code = GRPC_STATUS_INVALID_ARGUMENT
  /\ call.incoming_queue # <<>>
  /\ call.hist_flushed = {}
  /\ \A t \in Threads : Idle(t)

(* ---------------------------------------- received metadata: SpecMetadata *)

\* what one receive callback delivers: nothing, or one or two metadata batches
\* with an element of the application, alone or followed by a status and its
\* details, or with a status alone
MetadataRecvs ==
  { <<>>,
    << Metadata(<< OtherElem >>, FALSE) >>,
    << Metadata(<< OtherElem, StatusElem([value |-> "1", bytes |-> << "1" >>]),
                   MessageElem >>, FALSE) >>,
    << Metadata(<< StatusElem([value |-> "1", bytes |-> << "1" >>]) >>, FALSE) >>,
    << Metadata(<< OtherElem >>, FALSE), Metadata(<< OtherElem >>, FALSE) >> }

\* a user who asks for messages only, so that the metadata stays buffered
NextMetadata ==
  \/ StartBatch
  \/ \E success \in BOOLEAN : TransportDoneRecv(success)
  \/ \E t \in Threads :
       \/ StartIoreq(t, MessageBatches, {})
       \/ CallOnDoneRecv(t, MetadataRecvs, AnyStreamState)
       \/ CallOnDoneRecvFailed(t)
       \/ ExecuteOp(t)
       \/ OnComplete(t)
       \/ Completing(t)
       \/ Unref(t)

SpecMetadata == Init /\ [][NextMetadata]_vars

(* C29 -------------------------------------------------------------------- *)

\* the metadata batches of MetadataRecvs
SomeBatches ==
  UNION { { ops[i].md : i \in 1..Len(ops) } : ops \in MetadataRecvs }

IsStatusKey(e) == e.key \in { "grpc-status", "grpc-message" }

\* how many elements of the batch are not status elements
Others(md) == Cardinality({ i \in 1..Len(md.elems) : ~IsStatusKey(md.elems[i]) })

\* recv_metadata on the call as it is: the batch is trailing iff the read state
\* is GOT_INITIAL_METADATA or later; its other elements go to the buffer of its
\* class and the status elements to the WIRE status
RouterFrame ==
  \A md \in SomeBatches :
    LET r == recv_metadata(call, md)
        trailing == call.read_state >= READ_STATE_GOT_INITIAL_METADATA
        k == IF trailing THEN 1 ELSE 0
    IN /\ r.buffered_metadata[k] = call.buffered_metadata[k] + Others(md)
       /\ r.buffered_metadata[1 - k] = call.buffered_metadata[1 - k]
       /\ r.owned_metadata_count = call.owned_metadata_count + Others(md)
       /\ (\E i \in 1..Len(md.elems) : md.elems[i].key = "grpc-status")
            => (r.status[STATUS_FROM_WIRE].is_set /\ r.status[STATUS_FROM_WIRE].code = 1)
       /\ (\E i \in 1..Len(md.elems) : md.elems[i].key = "grpc-message")
            => r.status[STATUS_FROM_WIRE].details = "wire details"
       /\ (\A i \in 1..Len(md.elems) : ~IsStatusKey(md.elems[i]))
            => r.status = call.status
       /\ r.read_state = IF trailing THEN call.read_state
                         ELSE READ_STATE_GOT_INITIAL_METADATA

\* what a step adds to the buffer of the initial (0) or trailing (1) metadata;
\* the batches of MetadataRecvs have one element of the application each, and
\* only the first batch of a call is not trailing
Buffered(k) == call'.buffered_metadata[k] - call.buffered_metadata[k]

\* C29: a received metadata batch is trailing iff the read state is
\* GOT_INITIAL_METADATA or later when it is processed; its elements other than
\* the status code and the status details go to buffered_metadata[1] if it is
\* trailing and to buffered_metadata[0] if not, the status elements go to the
\* WIRE status and into no buffer, and after a batch that is not trailing the
\* read state is GOT_INITIAL_METADATA
C29_MetadataRoutedByReadState ==
  /\ []RouterFrame
  /\ [][/\ Buffered(0) >= 0 /\ Buffered(1) >= 0
        /\ Buffered(0) + Buffered(1) =
             call'.owned_metadata_count - call.owned_metadata_count
        /\ Buffered(0) <= 1
        /\ Buffered(0) > 0 => call.read_state = READ_STATE_INITIAL
        /\ Buffered(0) + Buffered(1) > 0 =>
             call'.read_state >= READ_STATE_GOT_INITIAL_METADATA]_vars

\* one element arrived with the initial metadata and one with the trailing
\* metadata, which brought the status and its details as well
C29_Witness ==
  /\ call.buffered_metadata[0] = 1
  /\ call.buffered_metadata[1] = 1
  /\ call.owned_metadata_count = 2
  /\ call.status[STATUS_FROM_WIRE].is_set
  /\ call.status[STATUS_FROM_WIRE].details = "wire details"

(* --------------------------------------- message assembly: SpecAssembly *)

\* what one receive callback delivers: nothing, an empty message, the start of
\* a message of the greatest length, a slice without bytes, a slice of one
\* byte, or the start of a message with its first byte
AssemblyRecvs ==
  { <<>>,
    << BeginMessage(0) >>,
    << BeginMessage(MaxMessageLength) >>,
    << Slice(0) >>,
    << Slice(1) >>,
    << BeginMessage(MaxMessageLength), Slice(1) >> }

\* a user who asks for messages, and a peer that sends them piece by piece and
\* may break the framing
NextAssembly ==
  \/ StartBatch
  \/ TransportDoneRecv(TRUE)
  \/ \E t \in Threads :
       \/ StartIoreq(t, FramingBatches, {})
       \/ CallOnDoneRecv(t, AssemblyRecvs, AnyStreamState)
       \/ CallOnDoneRecvViolation(t, AssemblyRecvs)
       \/ ExecuteOp(t)
       \/ OnComplete(t)
       \/ Completing(t)
       \/ Unref(t)

SpecAssembly == Init /\ [][NextAssembly]_vars

(* C30 -------------------------------------------------------------------- *)

\* the lengths a BEGIN_MESSAGE or a slice is tried with
SomeLengths == 0..(MaxMessageLength + 1)

\* the call c2 has one message more in its queue than the call as it is, of
\* `bytes` bytes, and is not reading a message
PushedOne(c2, bytes) ==
  /\ c2.hist_pushed = call.hist_pushed + 1
  /\ c2.incoming_queue =
       Append(call.incoming_queue, [id |-> call.hist_pushed + 1, len |-> bytes])
  /\ ~c2.reading_message

\* the call c2 has the queue of the call as it is
PushedNone(c2) ==
  /\ c2.hist_pushed = call.hist_pushed
  /\ c2.incoming_queue = call.incoming_queue

\* begin_message on the call as it is: a message of length 0 is pushed at
\* once, a longer one starts the reading, a refused one changes nothing
BeginFrame ==
  \A length \in SomeLengths :
    LET r == begin_message(call, length)
    IN /\ r.success <=>
            (~call.reading_message /\ length <= grpc_channel_get_max_message_length)
       /\ ~r.success => r.c = call
       /\ (r.success /\ length = 0) => PushedOne(r.c, 0)
       /\ (r.success /\ length > 0) =>
            /\ PushedNone(r.c)
            /\ r.c.reading_message
            /\ r.c.incoming_message_length = length
            /\ r.c.incoming_message = 0

\* add_slice_to_message on the call as it is: a slice without bytes changes
\* nothing; a slice with bytes pushes the message iff it brings the bytes read
\* to the length announced, and the reading ends there and nowhere else
SliceFrame ==
  \A length \in SomeLengths :
    LET r == add_slice_to_message(call, length)
        total == call.incoming_message + length
    IN /\ length = 0 => (r.success /\ r.c = call)
       /\ length > 0 =>
            /\ r.success <=>
                 (call.reading_message /\ total <= call.incoming_message_length)
            /\ (call.reading_message /\ total = call.incoming_message_length)
                 => PushedOne(r.c, total)
            /\ ~(call.reading_message /\ total = call.incoming_message_length)
                 => (PushedNone(r.c) /\ r.c.reading_message = call.reading_message)

\* between the messages nothing is kept, and a message that is being read has
\* a length and fewer bytes than that, unless its callback has met too many
\* bytes and stopped
AssemblyInv ==
  /\ ~call.reading_message => call.incoming_message = 0
  /\ call.reading_message =>
       /\ call.incoming_message_length > 0
       /\ call.incoming_message >= call.incoming_message_length => mu # NoThread
  /\ \A i \in 1..Len(call.incoming_queue) :
       call.incoming_queue[i].len \in 0..MaxMessageLength

\* C30: a message is pushed onto the inbound queue exactly when the bytes read
\* since its BEGIN_MESSAGE equal the length announced: at once for a
\* BEGIN_MESSAGE of length 0, otherwise on the slice that brings the bytes to
\* that length; a slice without bytes changes nothing; reading_message is true
\* from a BEGIN_MESSAGE of a length above 0 to the slice that completes it
C30_MessagePushedWhenComplete ==
  BeginFrame /\ SliceFrame /\ AssemblyInv

\* a message of two bytes that came in two slices is in the queue, after an
\* empty message
C30_Witness ==
  /\ Len(call.incoming_queue) = 2
  /\ call.incoming_queue[1].len = 0
  /\ call.incoming_queue[2].len = MaxMessageLength
  /\ ~call.reading_message
  /\ call.incoming_message_length = MaxMessageLength

(* C31 -------------------------------------------------------------------- *)

\* the calls of grpc_call_start_batch that have returned an error
Failed == { g \in Tags : user.ret[g] \notin { "none", "running", GRPC_CALL_OK } }

\* C31: every completion that grpc_call_start_batch reserves with begin_op is
\* matched by one end_op, and never by more: a call that has returned an error
\* has left no reservation on the completion queue
C31_ReservationsMatched ==
  /\ \A g \in Tags : cq.posted[g] <= cq.begun[g]
  /\ \A g \in Failed : cq.begun[g] = cq.posted[g]

(* C32 -------------------------------------------------------------------- *)

\* thread t is about to call the on_complete of a finished group
Completes(t) == Len(th[t]) > 0 /\ Top(t).k = "on_complete" /\ Top(t).reqs # << >>

\* the completed request that thread t hands to on_complete next
Completed(t) == Head(Top(t).reqs)

\* every completion that has reached the queue carries GRPC_OP_OK
PostedOk == \A g \in Tags : cq.posted[g] > 0 => cq.status[g] = GRPC_OP_OK

\* one on_complete call of a batch posts GRPC_OP_OK, whatever status the group
\* finished with
PostsOk ==
  \A t \in Threads :
    (Completes(t) /\ Completed(t).on_complete = "finish_batch"
       /\ cq'.posted[Completed(t).tag] = cq.posted[Completed(t).tag] + 1)
    => /\ Completed(t).status \in { GRPC_OP_OK, GRPC_OP_ERROR }
       /\ cq'.status[Completed(t).tag] = GRPC_OP_OK

\* C32: the completion that grpc_call_start_batch posts to the completion queue
\* carries GRPC_OP_OK whatever the final status of the group: finish_batch drops
\* the status it is given, so a batch that failed is posted like one that succeeded
C32_BatchCompletionAlwaysOk == []PostedOk /\ [][PostsOk]_vars

\* a batch whose group finished with GRPC_OP_ERROR has been posted with GRPC_OP_OK
C32_Witness ==
  \E g \in Tags : \E m \in DOMAIN call.masters :
    /\ cq.begun[g] = 1 /\ cq.posted[g] = 1 /\ cq.status[g] = GRPC_OP_OK
    /\ call.masters[m].tag = g
    /\ call.masters[m].on_complete = "finish_batch"
    /\ call.masters[m].status = GRPC_OP_ERROR

(* C33 -------------------------------------------------------------------- *)

\* the slots that hold the group index g
SlotsOf(g) == { op \in IoreqOps : call.request_set[op] = g }

\* group g is pending: some slot holds its index
Pending(g) == SlotsOf(g) # {}

\* the slot of the anchor op of a pending group holds the group, and every slot
\* that holds the group is named in the need_mask of its master
AnchoredInv ==
  \A g \in IoreqOps :
    Pending(g) => /\ call.request_set[g] = g
                  /\ SlotsOf(g) \subseteq call.masters[g].need_mask

\* two groups that are pending together have masters that name different ops
\* and belong to different calls of start_ioreq
DisjointInv ==
  \A g, h \in IoreqOps :
    (g # h /\ Pending(g) /\ Pending(h))
      => /\ call.masters[g].need_mask \cap call.masters[h].need_mask = {}
         /\ call.masters[g].tag # call.masters[h].tag

\* no step sets up anew the master of a group that is pending: what start_ioreq
\* wrote stays, complete_mask only grows
MasterKept ==
  \A g \in IoreqOps :
    Pending(g) => /\ call'.masters[g].need_mask = call.masters[g].need_mask
                  /\ call'.masters[g].on_complete = call.masters[g].on_complete
                  /\ call'.masters[g].tag = call.masters[g].tag
                  /\ call.masters[g].complete_mask \subseteq call'.masters[g].complete_mask

\* an accepted start_ioreq takes a master that no pending group was using
FreshMaster ==
  \A t \in Threads : \A g \in IoreqOps :
    (StartIoreqStep(t) /\ user'.ret[Top(t).tag] = GRPC_CALL_OK
       /\ call'.masters[g].tag = Top(t).tag /\ call.masters[g].tag # Top(t).tag)
    => ~Pending(g)

\* C33: while a group is pending (some slot holds its index g) the slot of its
\* anchor op g holds g too, so that no accepted start_ioreq sets up masters[g]
\* anew before the group is final; two groups pending together do not share a
\* master, and every slot that holds g is named in masters[g].need_mask
C33_PendingGroupOwnsItsMaster ==
  [](AnchoredInv /\ DisjointInv) /\ [][MasterKept /\ FreshMaster]_vars

\* two accepted calls of start_ioreq have their groups pending together, one of
\* them with two ops
C33_Witness ==
  \E g, h \in IoreqOps :
    /\ g # h /\ Pending(g) /\ Pending(h)
    /\ \E op \in SlotsOf(g) : op # g
    /\ user.ret[call.masters[g].tag] = GRPC_CALL_OK
    /\ user.ret[call.masters[h].tag] = GRPC_CALL_OK
====
